---- MODULE Spec2Model ----
(***************************************************************************)
(* Model of the Auto-Post bot: the per-user session store                  *)
(* (fsm/state_manager.py, utils/fsm.py) and the conversation controller    *)
(* (handlers/base.py) that drives search -> select -> thumbnail ->         *)
(* preview -> post on top of it.                                           *)
(***************************************************************************)
EXTENDS Integers, Sequences, FiniteSets, TLC

VARIABLES
    impl,      \* which StateManager class is in use: "state_manager" | "utils_fsm"
    redisOn,   \* self._redis is not None (client object built at construction)
    redis,     \* networked backend: user -> [payload, ttl] for the keys "fsm:<user>"
    mem,       \* module-level _memory_store / _store: user -> dict
    ticks,     \* number of clock advances taken so far
    last,      \* the store call that completed last and what it returned
    netR,      \* side-by-side run, store with a Redis client: its Redis contents
    netM,      \* side-by-side run, store with a Redis client: its memory store
    locM,      \* side-by-side run, store without a client: its memory store
    both,      \* side-by-side run: the last call and what each store returned
    hs,        \* controller: the handler, if any, each slot is running, with its locals
    postCount, \* controller: users.post_count of the database, per user
    left,      \* controller: number of events (commands, callbacks, photos) still to come
    faults,    \* controller: number of Redis commands that raised
    ev,        \* controller: the handler step taken last and how it ended
    rn,        \* template engine: the arguments of a render call and what it returned
    tb,        \* template builder: wizard session, stored templates, active template
    th,        \* thumbnail processor: the arguments of a call and what it returned
    ft,        \* fetchers: a call, the replies of the server, the requests made
    bc         \* admin: the users whose text message was sent out as a broadcast

storeVars == <<impl, redisOn, redis, mem, ticks>>
pairVars == <<netR, netM, locM, both>>
ctlVars == <<hs, postCount, left, faults, ev>>
fmtVars == <<rn>>
auxVars == <<tb, th, ft, bc>>

(***************************************************************************)
(* Bounds and program constants                                            *)
(***************************************************************************)
MaxTicks == 2
DEFAULT_TTL == 600

Users == {"u1", "u2"}
Callers == {"u1"}   \* the store-level specifications follow one key
Impls == {"state_manager", "utils_fsm"}

(***************************************************************************)
(* Python values and dicts.  A value is a tagged record; a dict is a       *)
(* function from its keys to values.                                       *)
(***************************************************************************)
PyInt(s)   == [t |-> "int",   v |-> s]
PyStr(s)   == [t |-> "str",   v |-> s]
PyBool(b)  == [t |-> "bool",  v |-> IF b THEN "True" ELSE "False"]
PyNone     == [t |-> "none",  v |-> "None"]
PyBytes(s) == [t |-> "bytes", v |-> s]
PyObj(s)   == [t |-> "obj",   v |-> s]   \* a dict/list built of JSON-native values only

EmptyDict == [k \in {} |-> PyNone]
Put(m, k, x) == [j \in DOMAIN m \cup {k} |-> IF j = k THEN x ELSE m[j]]
Del(m, k) == [j \in DOMAIN m \ {k} |-> m[j]]

\* dict.update() with the precedence reversed: a key already present keeps its value
DictUpdateKeepOld(a, b) == [k \in DOMAIN a \cup DOMAIN b |-> IF k \in DOMAIN a THEN a[k] ELSE b[k]]

\* dict.update(): keys of b override keys of a, the other keys of a stay
DictUpdate(a, b) == [k \in DOMAIN a \cup DOMAIN b |-> IF k \in DOMAIN b THEN b[k] ELSE a[k]]

\* Python truthiness of a value, and of state.get(key)
Truthy(x) ==
    CASE x.t = "bool"  -> x.v = "True"
      [] x.t = "none"  -> FALSE
      [] x.t = "int"   -> x.v # "0"
      [] x.t = "str"   -> x.v # ""
      [] x.t = "bytes" -> x.v # ""
      [] OTHER         -> TRUE
DictGet(d, k) == IF k \in DOMAIN d THEN d[k] ELSE PyNone

\* Optional[Dict]: the result of get_state
None == [some |-> FALSE, val |-> EmptyDict]
Some(d) == [some |-> TRUE, val |-> d]

(***************************************************************************)
(* json.dumps / json.loads                                                 *)
(***************************************************************************)
Serializable(d) == \A k \in DOMAIN d : d[k].t # "bytes"

JsonEncode(x) ==
    CASE x.t = "int"  -> [j |-> "number", v |-> x.v]
      [] x.t = "str"  -> [j |-> "string", v |-> x.v]
      [] x.t = "bool" -> [j |-> IF x.v = "True" THEN "true" ELSE "false", v |-> ""]
      [] x.t = "none" -> [j |-> "null", v |-> ""]
      [] x.t = "obj"  -> [j |-> "object", v |-> x.v]

JsonDecode(tok) ==
    CASE tok.j = "number" -> PyInt(tok.v)
      [] tok.j = "string" -> PyStr(tok.v)
      [] tok.j = "true"   -> PyBool(TRUE)
      [] tok.j = "false"  -> PyBool(FALSE)
      [] tok.j = "null"   -> PyNone
      [] tok.j = "object" -> PyObj(tok.v)

JsonDumps(d) == [k \in DOMAIN d |-> JsonEncode(d[k])]
JsonLoads(p) == [k \in DOMAIN p |-> JsonDecode(p[k])]

(***************************************************************************)
(* StateManager.  Every operator takes the backend contents (r, m) and the *)
(* outcome ok of the one Redis command it issues (FALSE: the command       *)
(* raised), and returns the new contents and the call's result.            *)
(***************************************************************************)

\* get_state that answers None as soon as the Redis read raised
GetStateAbsentOnError(on, r, m, u, ok) ==
    IF on
    THEN [ret |-> IF ok /\ u \in DOMAIN r THEN Some(JsonLoads(r[u].payload)) ELSE None,
          alias |-> FALSE]
    ELSE [ret |-> IF u \in DOMAIN m THEN Some(m[u]) ELSE None,
          alias |-> u \in DOMAIN m]

\* get_state: Redis first; memory store when there is no client or the read raised
GetState(on, r, m, u, ok) ==
    IF on /\ ok
    THEN [ret |-> IF u \in DOMAIN r THEN Some(JsonLoads(r[u].payload)) ELSE None,
          alias |-> FALSE]
    ELSE [ret |-> IF u \in DOMAIN m THEN Some(m[u]) ELSE None,
          alias |-> u \in DOMAIN m]

\* set_state with one key for all users
SetStateOneKey(on, r, m, u, d, ttl, ok) ==
    IF ~Serializable(d)
    THEN [r |-> r, m |-> m, raised |-> TRUE, caught |-> FALSE]
    ELSE IF on /\ ok
         THEN [r |-> Put(r, "u1", [payload |-> JsonDumps(d), ttl |-> ttl]), m |-> m,
               raised |-> FALSE, caught |-> FALSE]
         ELSE [r |-> r, m |-> Put(m, "u1", d), raised |-> FALSE, caught |-> on]

\* set_state of fsm/state_manager.py: json.dumps runs before the backend is chosen
SetStateSM(on, r, m, u, d, ttl, ok) ==
    IF ~Serializable(d)
    THEN [r |-> r, m |-> m, raised |-> TRUE, caught |-> FALSE]
    ELSE IF on /\ ok
         THEN [r |-> Put(r, u, [payload |-> JsonDumps(d), ttl |-> ttl]), m |-> m,
               raised |-> FALSE, caught |-> FALSE]
         ELSE [r |-> r, m |-> Put(m, u, d), raised |-> FALSE, caught |-> on]

\* set of utils/fsm.py: json.dumps runs inside the try, so its TypeError is swallowed
SetStateFsm(on, r, m, u, d, ttl, ok) ==
    IF on /\ ok /\ Serializable(d)
    THEN [r |-> Put(r, u, [payload |-> JsonDumps(d), ttl |-> ttl]), m |-> m,
          raised |-> FALSE, caught |-> FALSE]
    ELSE [r |-> r, m |-> Put(m, u, d), raised |-> FALSE, caught |-> on]

SetState(im, on, r, m, u, d, ttl, ok) ==
    IF im = "state_manager" THEN SetStateSM(on, r, m, u, d, ttl, ok)
                            ELSE SetStateFsm(on, r, m, u, d, ttl, ok)

\* `current = await self.get_state(user_id) or {}` then `current.update(updates)`:
\* a non-empty dict that came from the memory store is that store's own object,
\* so the update is applied to the stored dict in place
UpdateMerge(on, r, m, u, upd, okGet) ==
    LET g == GetState(on, r, m, u, okGet)
        truthy == g.ret.some /\ DOMAIN g.ret.val # {}
        cur == DictUpdate(IF truthy THEN g.ret.val ELSE EmptyDict, upd)
        inPlace == g.alias /\ truthy
    IN [cur |-> cur, m |-> IF inPlace THEN Put(m, u, cur) ELSE m, inPlace |-> inPlace]

\* an update_state that keeps the time the stored entry has left
UpdateStateKeepTtl(im, on, r, m, u, upd, okGet, okSet) ==
    LET g == UpdateMerge(on, r, m, u, upd, okGet)
        s == SetState(im, on, r, g.m, u, g.cur,
                      IF u \in DOMAIN r THEN r[u].ttl ELSE DEFAULT_TTL, okSet)
    IN [r |-> s.r, m |-> s.m, raised |-> s.raised, cur |-> g.cur,
        caught |-> s.caught \/ (on /\ ~okGet)]

\* update_state: get, merge, then set_state with the default ttl
UpdateState(im, on, r, m, u, upd, okGet, okSet) ==
    LET g == UpdateMerge(on, r, m, u, upd, okGet)
        s == SetState(im, on, r, g.m, u, g.cur, DEFAULT_TTL, okSet)
    IN [r |-> s.r, m |-> s.m, raised |-> s.raised, cur |-> g.cur,
        caught |-> s.caught \/ (on /\ ~okGet)]

\* a clear_state that deletes nothing
ClearStateKeeps(on, r, m, u, ok) == [r |-> r, m |-> m]

\* clear_state
ClearState(on, r, m, u, ok) ==
    IF on /\ ok THEN [r |-> Del(r, u), m |-> m]
                ELSE [r |-> r, m |-> Del(m, u)]

\* what a caller reads for u when the backend answers
Read(on, r, m, u) == GetState(on, r, m, u, TRUE).ret
Stored(u) == Read(redisOn, redis, mem, u)

\* Redis passive expiry after d seconds; the memory store has no expiry
Expire(r, d) ==
    LET live == {u \in DOMAIN r : r[u].ttl > d}
    IN [u \in live |-> [payload |-> r[u].payload, ttl |-> r[u].ttl - d]]

(***************************************************************************)
(* Conversation controller: values, slots and the idle state               *)
(***************************************************************************)
MaxEvents == 3
MaxFaults == 1
MaxUsersEvents == 3
MaxElapse == 1

Categories == {"movie", "anime"}      \* CATEGORY of two of the four handler classes
RoutedCategories == {"movie", "tvshow", "anime", "manhwa"}
Results == {"r1"}                     \* a non-empty result list of _fetch_search
Metas == {"m1"}                       \* a record returned by _fetch_detail
Slots == {"a", "b", "c"}              \* handler coroutines in flight: a, b of u1; c of u2
SlotUser(s) == IF s = "c" THEN "u2" ELSE "u1"

IdleSlot == [h |-> "idle", pc |-> "idle", nxt |-> "idle", cat |-> "movie", cur |-> EmptyDict,
             st |-> None, live |-> FALSE, tpl |-> ""]
NoEntry == [red |-> [some |-> FALSE, payload |-> EmptyDict, ttl |-> 0], mem |-> None]
NoEv == [h |-> "none", u |-> "u1", out |-> "none", cat |-> "movie", arg |-> EmptyDict,
         was |-> "IDLE", got |-> ""]
CtlStart(n) ==
    /\ hs = [s \in Slots |-> IdleSlot]
    /\ postCount = [u \in Users |-> 0]
    /\ left = n
    /\ faults = 0
    /\ ev = NoEv
CtlIdle == CtlStart(0)

(***************************************************************************)
(* History records and the idle values of the three groups of variables    *)
(***************************************************************************)
NoOp == [op |-> "none", user |-> "u1", arg |-> EmptyDict, pre |-> None, ret |-> None,
         wrote |-> None, ttl |-> 0, raised |-> FALSE, failed |-> FALSE, aged |-> FALSE]

EmptyRedis == [u \in {} |-> [payload |-> EmptyDict, ttl |-> 0]]
EmptyMem == [u \in {} |-> EmptyDict]
NoCall == [op |-> "none", user |-> "u1", arg |-> EmptyDict, retN |-> None, retL |-> None,
           raisedN |-> FALSE, raisedL |-> FALSE]
PairIdle == netR = EmptyRedis /\ netM = EmptyMem /\ locM = EmptyMem /\ both = NoCall
NoRender == [cat |-> "movie", tpl |-> <<>>, title |-> [k |-> "absent", s |-> <<>>],
             synopsis |-> [k |-> "absent", s |-> <<>>], out |-> <<>>, done |-> "no"]
FmtIdle == rn = NoRender
NoSession == [some |-> FALSE, awaiting_template_name |-> FALSE,
              awaiting_template_body |-> FALSE, template_name |-> <<>>]
NoBuilder == [session |-> NoSession, templates |-> {}, active |-> <<"default">>,
              op |-> "none", text |-> <<>>, reply |-> "none", left |-> 0]
NoThumb == [fn |-> "none", done |-> "no"]
NoFetch == [fn |-> "none", done |-> "no"]
BuilderIdle == tb = NoBuilder
ThumbIdle == th = NoThumb
FetchIdle == ft = NoFetch
BroadcastIdle == bc = {}
AuxIdle == BuilderIdle /\ ThumbIdle /\ FetchIdle /\ BroadcastIdle

(***************************************************************************)
(* Store-level specification: a caller issuing get/set/update/clear one    *)
(* after the other, Redis commands failing or not, and time passing.       *)
(***************************************************************************)
Dicts ==
    { EmptyDict,
      [x |-> PyInt("1")],
      [y |-> PyInt("2")],
      [x |-> PyInt("2")],
      [x |-> PyBytes("img")] }
TTLs == {1, DEFAULT_TTL}
Delays == {1, DEFAULT_TTL - 1}

\* a Redis command can only fail when there is a client
Outcomes == IF redisOn THEN BOOLEAN ELSE {TRUE}

InitStore ==
    /\ impl \in Impls
    /\ redisOn \in BOOLEAN
    /\ redis = EmptyRedis
    /\ mem = EmptyMem
    /\ ticks = 0
    /\ last = NoOp
    /\ PairIdle
    /\ CtlIdle
    /\ FmtIdle
    /\ AuxIdle

OpGet(u, ok) ==
    /\ last' = [NoOp EXCEPT !.op = "get", !.user = u, !.pre = Stored(u),
                            !.ret = GetState(redisOn, redis, mem, u, ok).ret,
                            !.failed = ~ok]
    /\ UNCHANGED <<storeVars, pairVars, ctlVars, fmtVars, auxVars>>

OpSet(u, d, ttl, ok) ==
    LET s == SetState(impl, redisOn, redis, mem, u, d, ttl, ok) IN
    /\ redis' = s.r
    /\ mem' = s.m
    /\ last' = [NoOp EXCEPT !.op = "set", !.user = u, !.arg = d, !.pre = Stored(u),
                            !.wrote = Some(d), !.ttl = ttl,
                            !.raised = s.raised, !.failed = s.caught]
    /\ UNCHANGED <<impl, redisOn, ticks, pairVars, ctlVars, fmtVars, auxVars>>

OpUpdate(u, upd, okGet, okSet) ==
    LET s == UpdateState(impl, redisOn, redis, mem, u, upd, okGet, okSet) IN
    /\ redis' = s.r
    /\ mem' = s.m
    /\ last' = [NoOp EXCEPT !.op = "update", !.user = u, !.arg = upd, !.pre = Stored(u),
                            !.wrote = Some(s.cur), !.ttl = DEFAULT_TTL,
                            !.raised = s.raised, !.failed = s.caught]
    /\ UNCHANGED <<impl, redisOn, ticks, pairVars, ctlVars, fmtVars, auxVars>>

OpClear(u, ok) ==
    LET s == ClearState(redisOn, redis, mem, u, ok) IN
    /\ redis' = s.r
    /\ mem' = s.m
    /\ last' = [NoOp EXCEPT !.op = "clear", !.user = u, !.pre = Stored(u), !.failed = ~ok]
    /\ UNCHANGED <<impl, redisOn, ticks, pairVars, ctlVars, fmtVars, auxVars>>

\* d seconds pass
Tick(d) ==
    /\ ticks < MaxTicks
    /\ ticks' = ticks + 1
    /\ redis' = Expire(redis, d)
    /\ last' = [last EXCEPT !.ttl = IF @ > d THEN @ - d ELSE 0, !.aged = TRUE]
    /\ UNCHANGED <<impl, redisOn, mem, pairVars, ctlVars, fmtVars, auxVars>>

NextStore ==
    \/ \E u \in Callers, ok \in Outcomes : OpGet(u, ok)
    \/ \E u \in Callers, d \in Dicts, ttl \in TTLs, ok \in Outcomes : OpSet(u, d, ttl, ok)
    \/ \E u \in Callers, d \in Dicts, okGet \in Outcomes, okSet \in Outcomes : OpUpdate(u, d, okGet, okSet)
    \/ \E u \in Callers, ok \in Outcomes : OpClear(u, ok)
    \/ \E d \in Delays : Tick(d)

vars == <<impl, redisOn, redis, mem, ticks, last, netR, netM, locM, both,
          hs, postCount, left, faults, ev, rn, tb, th, ft, bc>>

SpecStore == InitStore /\ [][NextStore]_vars

(***************************************************************************)
(* Side-by-side specification: the same calls issued to a store that has a *)
(* Redis client (every command succeeds, no time passes) and to a store    *)
(* that has none.                                                          *)
(***************************************************************************)
InitPair ==
    /\ impl = "state_manager"
    /\ redisOn = FALSE
    /\ redis = EmptyRedis
    /\ mem = EmptyMem
    /\ ticks = 0
    /\ last = NoOp
    /\ PairIdle
    /\ CtlIdle
    /\ FmtIdle
    /\ AuxIdle

PairGet(u) ==
    /\ both' = [NoCall EXCEPT !.op = "get", !.user = u,
                              !.retN = GetState(TRUE, netR, netM, u, TRUE).ret,
                              !.retL = GetState(FALSE, EmptyRedis, locM, u, TRUE).ret]
    /\ UNCHANGED <<storeVars, last, netR, netM, locM, ctlVars, fmtVars, auxVars>>

PairSet(u, d, ttl) ==
    LET n == SetState(impl, TRUE, netR, netM, u, d, ttl, TRUE)
        l == SetState(impl, FALSE, EmptyRedis, locM, u, d, ttl, TRUE) IN
    /\ netR' = n.r
    /\ netM' = n.m
    /\ locM' = l.m
    /\ both' = [NoCall EXCEPT !.op = "set", !.user = u, !.arg = d,
                              !.raisedN = n.raised, !.raisedL = l.raised]
    /\ UNCHANGED <<storeVars, last, ctlVars, fmtVars, auxVars>>

PairUpdate(u, upd) ==
    LET n == UpdateState(impl, TRUE, netR, netM, u, upd, TRUE, TRUE)
        l == UpdateState(impl, FALSE, EmptyRedis, locM, u, upd, TRUE, TRUE) IN
    /\ netR' = n.r
    /\ netM' = n.m
    /\ locM' = l.m
    /\ both' = [NoCall EXCEPT !.op = "update", !.user = u, !.arg = upd,
                              !.raisedN = n.raised, !.raisedL = l.raised]
    /\ UNCHANGED <<storeVars, last, ctlVars, fmtVars, auxVars>>

PairClear(u) ==
    LET n == ClearState(TRUE, netR, netM, u, TRUE)
        l == ClearState(FALSE, EmptyRedis, locM, u, TRUE) IN
    /\ netR' = n.r
    /\ netM' = n.m
    /\ locM' = l.m
    /\ both' = [NoCall EXCEPT !.op = "clear", !.user = u]
    /\ UNCHANGED <<storeVars, last, ctlVars, fmtVars, auxVars>>

NextPair ==
    \/ \E u \in Users : PairGet(u)
    \/ \E u \in Users, d \in Dicts, ttl \in TTLs : PairSet(u, d, ttl)
    \/ \E u \in Users, d \in Dicts : PairUpdate(u, d)
    \/ \E u \in Users : PairClear(u)

SpecPair == InitPair /\ [][NextPair]_vars

(***************************************************************************)
(* Conversation controller (handlers/base.py).  A handler runs in a slot   *)
(* from one await on the store to the next; steps of different handlers    *)
(* interleave.  A Redis command of a step either succeeds or raises.       *)
(***************************************************************************)
InitCtl ==
    /\ impl = "state_manager"
    /\ redisOn \in BOOLEAN
    /\ redis = EmptyRedis
    /\ mem = EmptyMem
    /\ ticks = 0
    /\ last = NoOp
    /\ PairIdle
    /\ CtlStart(MaxEvents)
    /\ FmtIdle
    /\ AuxIdle

InitUsers ==
    /\ impl = "state_manager"
    /\ redisOn \in BOOLEAN
    /\ redis = EmptyRedis
    /\ mem = EmptyMem
    /\ ticks = 0
    /\ last = NoOp
    /\ PairIdle
    /\ CtlStart(MaxUsersEvents)
    /\ FmtIdle
    /\ AuxIdle

\* both backends' entries for u
Entry(u) ==
    [red |-> IF u \in DOMAIN redis
             THEN [some |-> TRUE, payload |-> redis[u].payload, ttl |-> redis[u].ttl]
             ELSE NoEntry.red,
     mem |-> IF u \in DOMAIN mem THEN Some(mem[u]) ELSE None]

\* a Redis command may raise only while there is a client and the fault bound lasts
MayFail(ok) == ok \/ (redisOn /\ faults < MaxFaults)
Faults(ok) == IF ok THEN faults ELSE faults + 1

\* a slot can take an event: the second slot of u1 is used only while the first is busy
Free(s) ==
    /\ left > 0
    /\ hs[s].h = "idle"
    /\ s = "b" => hs["a"].h # "idle"

\* Dicts held by handlers of u that are the memory store's own object: an in-place
\* update shows through them, assigning or popping the store's entry detaches them
Mutated(h, u, d) ==
    [s \in Slots |-> IF SlotUser(s) = u /\ h[s].live THEN [h[s] EXCEPT !.st = Some(d)] ELSE h[s]]
Detached(h, u) ==
    [s \in Slots |-> IF SlotUser(s) = u /\ h[s].live THEN [h[s] EXCEPT !.live = FALSE] ELSE h[s]]

\* Where the flow of a user stands, told from the session get_state returns: no
\* session, results to pick from (search), a photo awaited (_on_select,
\* _on_redo_thumb; _route_photo tests the same flag), a built post (_build_post)
Flow(g) ==
    IF ~g.some THEN "IDLE"
    ELSE IF Truthy(DictGet(g.val, "awaiting_thumbnail")) THEN "AWAITING_THUMBNAIL"
    ELSE IF {"caption", "thumb_bytes"} \cap DOMAIN g.val # {} THEN "PREVIEW"
    ELSE IF "search_results" \in DOMAIN g.val /\ "meta" \notin DOMAIN g.val THEN "SELECTING"
    ELSE "OTHER"

\* the record of a step: handler, user, outcome, category, the dict passed to the
\* store, where the flow stood before the step, and what the fetch of a search or
\* a select returned, what post_to_channel answered, or the template a
\* _on_template_selected call was made for
Event(h, u, out, cat, arg) ==
    [h |-> h, u |-> u, out |-> out, cat |-> cat, arg |-> arg, was |-> Flow(Stored(u)),
     got |-> ""]
Got(e, x) == [e EXCEPT !.got = x]

\* a search that stores whatever came back, a select that stores a failed fetch
FoundAlways(res) == TRUE
FetchedAlways(meta) == TRUE

\* `if not results:` in search and `if not meta:` in _on_select
Found(res) == res \notin {"usage", "none"}
Fetched(meta) == meta # "none"

\* what a handler does after the call it is suspended in
Continue(sl, pc) ==
    IF pc = "idle" THEN IdleSlot
    ELSE [sl EXCEPT !.pc = pc, !.cur = EmptyDict, !.st = None, !.live = FALSE]

\* update_state up to its first suspension inside set_state: the read, the merge
\* and json.dumps.  Without a client the call completes here.  nxt is where the
\* handler goes on once update_state has returned.
BeginUpdate(s, h, got, cat, upd, okGet, nxt) ==
    LET u == SlotUser(s)
        g == UpdateMerge(redisOn, redis, mem, u, upd, okGet)
        w == SetState(impl, redisOn, redis, g.m, u, g.cur, DEFAULT_TTL, TRUE)
        seen == IF g.inPlace THEN Mutated(hs, u, g.cur) ELSE hs
        sl == [IdleSlot EXCEPT !.h = h, !.cat = cat, !.nxt = nxt,
                               !.tpl = IF h = "tplsel" THEN got ELSE ""]
    IN /\ MayFail(okGet)
       /\ faults' = Faults(okGet)
       /\ redis' = redis
       /\ IF w.raised
          THEN /\ mem' = g.m
               /\ hs' = [seen EXCEPT ![s] = IdleSlot]
               /\ ev' = Got(Event(h, u, "TypeError", cat, upd), got)
          ELSE IF redisOn
          THEN /\ mem' = g.m
               /\ hs' = [seen EXCEPT ![s] = [sl EXCEPT !.pc = "write", !.cur = g.cur,
                                                       !.st = Some(g.cur), !.live = g.inPlace]]
               /\ ev' = Got(Event(h, u, "read", cat, upd), got)
          ELSE /\ mem' = w.m
               /\ hs' = [(IF g.inPlace THEN seen ELSE Detached(seen, u))
                            EXCEPT ![s] = Continue(sl, nxt)]
               /\ ev' = Got(Event(h, u, "ok", cat, upd), got)

\* update_state, the rest of set_state: `await self._redis.set(...)` returns or
\* raises, and on a raise the dict itself is put into the memory store
UpdWrite(s, ok) ==
    LET u == SlotUser(s)
        sl == hs[s]
        w == SetState(impl, redisOn, redis, mem, u, sl.cur, DEFAULT_TTL, TRUE)
    IN /\ sl.pc = "write"
       /\ MayFail(ok)
       /\ faults' = Faults(ok)
       /\ IF ok
          THEN /\ redis' = w.r
               /\ mem' = mem
               /\ hs' = [hs EXCEPT ![s] = Continue(sl, sl.nxt)]
          ELSE /\ redis' = redis
               /\ mem' = Put(mem, u, sl.st.val)
               /\ hs' = [(IF sl.live THEN hs ELSE Detached(hs, u))
                            EXCEPT ![s] = Continue(sl, sl.nxt)]
       /\ ev' = Got(Event(sl.h, u, "ok", sl.cat, sl.cur), sl.tpl)
       /\ UNCHANGED <<impl, redisOn, ticks, last, pairVars, postCount, left, fmtVars, auxVars>>

\* the dict search passes to set_state, and one that lacks the category
SearchStateBare(cat, res) == [search_results |-> PyObj(res)]
SearchState(cat, res) == [category |-> PyStr(cat), search_results |-> PyObj(res)]

\* /movie, /anime, ...: BaseHandler.search
Search(u, cat, res, ok) ==
    LET d == SearchState(cat, res)
        w == SetState(impl, redisOn, redis, mem, u, d, DEFAULT_TTL, ok)
    IN /\ left > 0
       /\ left' = left - 1
       /\ MayFail(ok)
       /\ faults' = Faults(ok)
       /\ IF ~Found(res)
          THEN /\ ok
               /\ ev' = Got(Event("search", u, IF res = "usage" THEN "usage" ELSE "noresults",
                                 cat, EmptyDict), res)
               /\ UNCHANGED <<redis, mem, hs>>
          ELSE /\ redis' = w.r
               /\ mem' = w.m
               /\ hs' = IF redisOn /\ ok THEN hs ELSE Detached(hs, u)
               /\ ev' = Got(Event("search", u, "ok", cat, d), res)
       /\ UNCHANGED <<impl, redisOn, ticks, last, pairVars, postCount, fmtVars, auxVars>>

\* "<prefix>_select_<id>": BaseHandler._on_select
Select(s, cat, meta, okGet) ==
    /\ Free(s)
    /\ left' = left - 1
    /\ IF ~Fetched(meta)
       THEN /\ okGet
            /\ ev' = Got(Event("select", SlotUser(s), "nodetail", cat, EmptyDict), meta)
            /\ UNCHANGED <<redis, mem, hs, faults>>
       ELSE BeginUpdate(s, "select", meta, cat,
                        [meta |-> PyObj(meta), awaiting_thumbnail |-> PyBool(TRUE)], okGet, "idle")
    /\ UNCHANGED <<impl, redisOn, ticks, last, pairVars, postCount, fmtVars, auxVars>>

\* "<prefix>_thumb_skip": BaseHandler._on_thumb_skip, up to _show_preview
ThumbSkip(s, cat, okGet) ==
    /\ Free(s)
    /\ left' = left - 1
    /\ BeginUpdate(s, "skip", "", cat,
                   [awaiting_thumbnail |-> PyBool(FALSE), custom_image |-> PyNone], okGet, "pv_get")
    /\ UNCHANGED <<impl, redisOn, ticks, last, pairVars, postCount, fmtVars, auxVars>>

\* "<prefix>_redo_thumb": BaseHandler._on_redo_thumb
RedoThumb(s, cat, okGet) ==
    /\ Free(s)
    /\ left' = left - 1
    /\ BeginUpdate(s, "redo", "", cat, [awaiting_thumbnail |-> PyBool(TRUE)], okGet, "idle")
    /\ UNCHANGED <<impl, redisOn, ticks, last, pairVars, postCount, fmtVars, auxVars>>

\* "<prefix>_tpl_<name>": BaseHandler._on_template_selected, up to _show_preview;
\* tpl is "default", a name get_template finds (with its body) or one it does not
TemplateSelected(s, cat, tpl, okGet) ==
    /\ Free(s)
    /\ left' = left - 1
    /\ IF tpl = "missing"
       THEN /\ okGet
            /\ hs' = [hs EXCEPT ![s] = [IdleSlot EXCEPT !.h = "tplsel", !.cat = cat, !.pc = "pv_get",
                                                       !.tpl = tpl]]
            /\ ev' = Got(Event("tplsel", SlotUser(s), "notemplate", cat, EmptyDict), tpl)
            /\ UNCHANGED <<redis, mem, faults>>
       ELSE BeginUpdate(s, "tplsel", tpl, cat,
                        [active_template_override |-> IF tpl = "default" THEN PyNone ELSE PyStr(tpl)],
                        okGet, "pv_get")
    /\ UNCHANGED <<impl, redisOn, ticks, last, pairVars, postCount, fmtVars, auxVars>>

\* "<prefix>_back_preview": straight to _show_preview
BackPreview(s, cat) ==
    /\ Free(s)
    /\ left' = left - 1
    /\ hs' = [hs EXCEPT ![s] = [IdleSlot EXCEPT !.h = "back", !.cat = cat, !.pc = "pv_get"]]
    /\ ev' = Event("back", SlotUser(s), "start", cat, EmptyDict)
    /\ UNCHANGED <<storeVars, last, pairVars, postCount, faults, fmtVars, auxVars>>

\* "<prefix>_change_template": BaseHandler._on_change_template shows a menu
ChangeTemplate(u, cat) ==
    /\ left > 0
    /\ left' = left - 1
    /\ ev' = Event("chtpl", u, "menu", cat, EmptyDict)
    /\ UNCHANGED <<storeVars, last, pairVars, hs, postCount, faults, fmtVars, auxVars>>

\* _show_preview / _show_preview_from_message: get_state and `if not state: return`.
\* _show_preview awaits safe_edit before _build_post reads the dict; when the dict
\* is the memory store's own object that read sees later in-place updates.
PreviewGet(s, ok) ==
    LET u == SlotUser(s)
        sl == hs[s]
        g == GetState(redisOn, redis, mem, u, ok)
        late == g.alias /\ sl.h # "photo"
    IN /\ sl.pc = "pv_get"
       /\ MayFail(ok)
       /\ faults' = Faults(ok)
       /\ IF ~g.ret.some \/ DOMAIN g.ret.val = {}
          THEN /\ hs' = [hs EXCEPT ![s] = IdleSlot]
               /\ ev' = Got(Event(sl.h, u, "nostate", sl.cat, EmptyDict), sl.tpl)
          ELSE /\ hs' = [hs EXCEPT ![s] = [sl EXCEPT !.pc = IF late THEN "pv_read" ELSE "pv_build",
                                                      !.st = g.ret, !.live = late]]
               /\ ev' = Got(Event(sl.h, u, "state", sl.cat, EmptyDict), sl.tpl)
       /\ UNCHANGED <<storeVars, last, pairVars, postCount, left, fmtVars, auxVars>>

\* _build_post, first lines: meta and custom_image are read from the dict
PreviewRead(s) ==
    /\ hs[s].pc = "pv_read"
    /\ hs' = [hs EXCEPT ![s] = [@ EXCEPT !.pc = "pv_build", !.live = FALSE]]
    /\ ev' = Got(Event(hs[s].h, SlotUser(s), "state", hs[s].cat, EmptyDict), hs[s].tpl)
    /\ UNCHANGED <<storeVars, last, pairVars, postCount, left, faults, fmtVars, auxVars>>

\* FormatEngine.render, build_thumbnail and process_custom_thumbnail as functions
\* of what _build_post passes them
MetaOf(d) == IF "meta" \in DOMAIN d THEN d["meta"].v ELSE "nometa"
Caption(cat, d, body) == "caption(" \o cat \o "," \o MetaOf(d) \o "," \o body \o ")"
Card(d) ==
    IF Truthy(DictGet(d, "custom_image"))
    THEN "custom(" \o d["custom_image"].v \o ")"
    ELSE "card(" \o MetaOf(d) \o ")"

\* _build_post: render the caption with the active template of the database
\* (body), build the image (Image.open raises on bytes that are no image), then
\* update_state with both
PreviewBuild(s, body, decodable, okGet) ==
    LET u == SlotUser(s)
        sl == hs[s]
        d == sl.st.val
        upd == [caption |-> PyStr(Caption(sl.cat, d, body)), thumb_bytes |-> PyBytes(Card(d))]
    IN /\ sl.pc = "pv_build"
       /\ IF Truthy(DictGet(d, "custom_image")) /\ ~decodable
          THEN /\ okGet
               /\ hs' = [hs EXCEPT ![s] = IdleSlot]
               /\ ev' = Got(Event(sl.h, u, "ImageError", sl.cat, EmptyDict), sl.tpl)
               /\ UNCHANGED <<redis, mem, faults>>
          ELSE /\ decodable
               /\ BeginUpdate(s, sl.h, sl.tpl, sl.cat, upd, okGet, "idle")
       /\ UNCHANGED <<impl, redisOn, ticks, last, pairVars, postCount, left, fmtVars, auxVars>>

\* a photo message: _route_photo reads the state and picks the handler by its category
PhotoRoute(s, ok) ==
    LET u == SlotUser(s)
        g == GetState(redisOn, redis, mem, u, ok)
        d == g.ret.val
        routed == /\ g.ret.some /\ DOMAIN d # {}
                  /\ Truthy(DictGet(d, "awaiting_thumbnail"))
                  /\ DictGet(d, "category").t = "str"
                  /\ DictGet(d, "category").v \in RoutedCategories
    IN /\ Free(s)
       /\ left' = left - 1
       /\ MayFail(ok)
       /\ faults' = Faults(ok)
       /\ IF routed
          THEN /\ hs' = [hs EXCEPT ![s] = [IdleSlot EXCEPT !.h = "photo", !.pc = "ph_check",
                                                          !.cat = d["category"].v]]
               /\ ev' = Event("photo", u, "routed", d["category"].v, EmptyDict)
          ELSE /\ hs' = hs
               /\ ev' = Event("photo", u, "ignored", "movie", EmptyDict)
       /\ UNCHANGED <<storeVars, last, pairVars, postCount, fmtVars, auxVars>>

\* handle_thumbnail: the state is read again and checked again
PhotoCheck(s, ok) ==
    LET u == SlotUser(s)
        sl == hs[s]
        g == GetState(redisOn, redis, mem, u, ok)
        waiting == /\ g.ret.some /\ DOMAIN g.ret.val # {}
                   /\ Truthy(DictGet(g.ret.val, "awaiting_thumbnail"))
    IN /\ sl.pc = "ph_check"
       /\ MayFail(ok)
       /\ faults' = Faults(ok)
       /\ hs' = [hs EXCEPT ![s] = IF waiting THEN [sl EXCEPT !.pc = "ph_store"] ELSE IdleSlot]
       /\ ev' = Event("photo", u, IF waiting THEN "download" ELSE "ignored", sl.cat, EmptyDict)
       /\ UNCHANGED <<storeVars, last, pairVars, postCount, left, fmtVars, auxVars>>

\* handle_thumbnail: the downloaded photo is stored with update_state
PhotoStore(s, img, okGet) ==
    /\ hs[s].pc = "ph_store"
    /\ BeginUpdate(s, "photo", "", hs[s].cat,
                   [awaiting_thumbnail |-> PyBool(FALSE), custom_image |-> PyBytes(img)],
                   okGet, "pv_get")
    /\ UNCHANGED <<impl, redisOn, ticks, last, pairVars, postCount, left, fmtVars, auxVars>>

\* "<prefix>_post_channel": BaseHandler._on_post_channel reads the state ...
PostGet(s, cat, ok) ==
    LET g == GetState(redisOn, redis, mem, SlotUser(s), ok)
    IN /\ Free(s)
       /\ left' = left - 1
       /\ MayFail(ok)
       /\ faults' = Faults(ok)
       /\ hs' = [hs EXCEPT ![s] = [IdleSlot EXCEPT !.h = "post", !.cat = cat, !.pc = "pc_send",
                                                  !.st = g.ret, !.live = g.alias]]
       /\ ev' = Event("post", SlotUser(s), "state", cat, EmptyDict)
       /\ UNCHANGED <<storeVars, last, pairVars, postCount, fmtVars, auxVars>>

\* a handler that takes every answer of post_to_channel for a success
DeliveredAlways(sent) == TRUE

\* `if success:` on what post_to_channel answered
Delivered(sent) == sent

\* ... then, the settings fetched, posts state["caption"] and state["thumb_bytes"];
\* post_to_channel answers True or False, and on True the post count is incremented
PostSend(s, hasChannel, sent) ==
    LET u == SlotUser(s)
        sl == hs[s]
        d == sl.st.val
        post == [caption |-> IF "caption" \in DOMAIN d THEN d["caption"] ELSE PyStr(""),
                 thumb_bytes |-> IF "thumb_bytes" \in DOMAIN d THEN d["thumb_bytes"] ELSE PyBytes("")]
    IN /\ sl.pc = "pc_send"
       /\ IF ~hasChannel
          THEN /\ ~sent
               /\ hs' = [hs EXCEPT ![s] = IdleSlot]
               /\ ev' = Event("post", u, "nochannel", sl.cat, EmptyDict)
               /\ postCount' = postCount
          ELSE IF ~sl.st.some
          THEN /\ ~sent
               /\ hs' = [hs EXCEPT ![s] = IdleSlot]
               /\ ev' = Event("post", u, "AttributeError", sl.cat, EmptyDict)
               /\ postCount' = postCount
          ELSE IF Delivered(sent)
          THEN /\ hs' = [hs EXCEPT ![s] = Continue(sl, "pc_clear")]
               /\ ev' = Got(Event("post", u, "sent", sl.cat, post), IF sent THEN "True" ELSE "False")
               /\ postCount' = [postCount EXCEPT ![u] = @ + 1]
          ELSE /\ hs' = [hs EXCEPT ![s] = IdleSlot]
               /\ ev' = Got(Event("post", u, "sendfail", sl.cat, post), IF sent THEN "True" ELSE "False")
               /\ postCount' = postCount
       /\ UNCHANGED <<storeVars, last, pairVars, left, faults, fmtVars, auxVars>>

\* ... and after a successful post clears the state
PostClear(s, ok) ==
    LET u == SlotUser(s)
        c == ClearState(redisOn, redis, mem, u, ok)
    IN /\ hs[s].pc = "pc_clear"
       /\ MayFail(ok)
       /\ faults' = Faults(ok)
       /\ redis' = c.r
       /\ mem' = c.m
       /\ hs' = [(IF redisOn /\ ok THEN hs ELSE Detached(hs, u)) EXCEPT ![s] = IdleSlot]
       /\ ev' = Event("post", u, "cleared", hs[s].cat, EmptyDict)
       /\ UNCHANGED <<impl, redisOn, ticks, last, pairVars, postCount, left, fmtVars, auxVars>>

\* "<prefix>_post_copy": BaseHandler._on_post_copy
PostCopy(u, cat, ok) ==
    LET g == GetState(redisOn, redis, mem, u, ok)
    IN /\ left > 0
       /\ left' = left - 1
       /\ MayFail(ok)
       /\ faults' = Faults(ok)
       /\ IF g.ret.some
          THEN /\ ev' = Event("copy", u, "ok", cat, EmptyDict)
               /\ postCount' = [postCount EXCEPT ![u] = @ + 1]
          ELSE /\ ev' = Event("copy", u, "AttributeError", cat, EmptyDict)
               /\ postCount' = postCount
       /\ UNCHANGED <<storeVars, last, pairVars, hs, fmtVars, auxVars>>

\* "<prefix>_cancel": BaseHandler._on_cancel
Cancel(u, ok) ==
    LET c == ClearState(redisOn, redis, mem, u, ok)
    IN /\ left > 0
       /\ left' = left - 1
       /\ MayFail(ok)
       /\ faults' = Faults(ok)
       /\ redis' = c.r
       /\ mem' = c.m
       /\ hs' = IF redisOn /\ ok THEN hs ELSE Detached(hs, u)
       /\ ev' = Event("cancel", u, "ok", "movie", EmptyDict)
       /\ UNCHANGED <<impl, redisOn, ticks, last, pairVars, postCount, fmtVars, auxVars>>

\* nothing happens for d seconds
Elapse(d) ==
    /\ ticks < MaxElapse
    /\ ticks' = ticks + 1
    /\ redis' = Expire(redis, d)
    /\ ev' = [NoEv EXCEPT !.h = "tick"]
    /\ UNCHANGED <<impl, redisOn, mem, last, pairVars, hs, postCount, left, faults, fmtVars, auxVars>>

Hits == Results \cup {"usage", "none"}
Details == Metas \cup {"none"}
Templates == {"default", "b1", "missing"}
Bodies == {"default", "b1"}
Images == {"img"}

\* the events and handler steps of the users UU, running in the slots SS: the
\* search commands of the categories SC, the buttons of the categories CC
Step(SS, UU, SC, CC) ==
    \/ \E u \in UU, cat \in SC, res \in Hits, ok \in BOOLEAN : Search(u, cat, res, ok)
    \/ \E s \in SS, cat \in CC, meta \in Details, ok \in BOOLEAN : Select(s, cat, meta, ok)
    \/ \E s \in SS, cat \in CC, ok \in BOOLEAN : ThumbSkip(s, cat, ok)
    \/ \E s \in SS, cat \in CC, ok \in BOOLEAN : RedoThumb(s, cat, ok)
    \/ \E s \in SS, cat \in CC, tpl \in Templates, ok \in BOOLEAN : TemplateSelected(s, cat, tpl, ok)
    \/ \E s \in SS, cat \in CC : BackPreview(s, cat)
    \/ \E u \in UU, cat \in CC : ChangeTemplate(u, cat)
    \/ \E s \in SS, ok \in BOOLEAN : UpdWrite(s, ok)
    \/ \E s \in SS, ok \in BOOLEAN : PreviewGet(s, ok)
    \/ \E s \in SS : PreviewRead(s)
    \/ \E s \in SS, body \in Bodies, dec \in BOOLEAN, ok \in BOOLEAN : PreviewBuild(s, body, dec, ok)
    \/ \E s \in SS, ok \in BOOLEAN : PhotoRoute(s, ok)
    \/ \E s \in SS, ok \in BOOLEAN : PhotoCheck(s, ok)
    \/ \E s \in SS, img \in Images, ok \in BOOLEAN : PhotoStore(s, img, ok)
    \/ \E s \in SS, cat \in CC, ok \in BOOLEAN : PostGet(s, cat, ok)
    \/ \E s \in SS, ch \in BOOLEAN, sent \in BOOLEAN : PostSend(s, ch, sent)
    \/ \E s \in SS, ok \in BOOLEAN : PostClear(s, ok)
    \/ \E u \in UU, cat \in CC, ok \in BOOLEAN : PostCopy(u, cat, ok)
    \/ \E u \in UU, ok \in BOOLEAN : Cancel(u, ok)
    \/ \E d \in {DEFAULT_TTL} : Elapse(d)

\* one user, one callback or photo in flight at a time, commands arriving meanwhile
Next == Step({"a"}, {"u1"}, Categories, {"movie"})
Spec == InitCtl /\ [][Next]_vars

\* two users: the commands and one-step buttons of both, and the callbacks and
\* photos of u1, one in flight at a time
NextUsers == Step({"a"}, Users, {"movie"}, {"movie"})
SpecUsers == InitUsers /\ [][NextUsers]_vars

(***************************************************************************)
(* The template engine (formatter/engine.py).  A text is a sequence of     *)
(* elements: a character, or a piece of text that is handled as a whole (a *)
(* token name, a literal of a default template, "N/A", a number).          *)
(***************************************************************************)
MaxTemplate == 4

Chars == {"{", "}", "title", "synopsis", "\n"}
Text(n) == UNION {[1..k -> Chars] : k \in 0..n}

\* a metadata field: not in the record, null, a text, or a number
Absent == [k |-> "absent", s |-> <<>>]
Null == [k |-> "none", s |-> <<>>]
Str(s) == [k |-> "str", s |-> s]
Whole(n) == [k |-> "int", s |-> <<n>>]
Decimal(x) == [k |-> "float", s |-> <<x>>]

\* the fields _build_tokens reads from the metadata record
MetaKeys ==
    {"title", "genres", "imdb_rating", "rating", "year", "imdb_votes", "imdb_url",
     "content_rating", "box_office", "awards", "metacritic", "release_date", "overview",
     "runtime", "status", "tagline", "language", "seasons", "episodes", "network",
     "title_jp", "synopsis", "type", "aired", "studio", "source", "season",
     "title_native", "chapters", "volumes", "published"}
NoMeta == [k \in MetaKeys |-> Absent]
NoSettings == [quality |-> Absent, audio |-> Absent]

\* the least member of a non-empty set of positions, 0 for the empty set
Least(S) == IF S = {} THEN 0 ELSE CHOOSE i \in S : \A j \in S : i <= j

\* where old first occurs in s at or after position from, 0 when it does not
NextMatch(s, old, from) ==
    Least({i \in from..(Len(s) - Len(old) + 1) : SubSeq(s, i, i + Len(old) - 1) = old})

\* str.replace(old, new): the occurrences of old from left to right, none overlapping
RECURSIVE ReplaceFrom(_, _, _, _)
ReplaceFrom(s, old, new, from) ==
    LET i == NextMatch(s, old, from)
    IN IF i = 0 THEN SubSeq(s, from, Len(s))
       ELSE SubSeq(s, from, i - 1) \o new \o ReplaceFrom(s, old, new, i + Len(old))
StrReplace(s, old, new) == ReplaceFrom(s, old, new, 1)

\* where the first "}" after position i of s is, 0 when there is none
FirstClose(s, i) == Least({j \in (i + 1)..Len(s) : s[j] = "}"})

\* where the first match of \{[^}]+\} at or after position from starts
NextToken(s, from) ==
    Least({i \in from..Len(s) : s[i] = "{" /\ FirstClose(s, i) > i + 1})

\* a clean-up that removes nothing
StripTokensNone(s) == s

\* re.sub(r"\{[^}]+\}", "", s): leftmost matches, at least one character inside
RECURSIVE StripFrom(_, _)
StripFrom(s, from) ==
    LET i == NextToken(s, from)
    IN IF i = 0 THEN SubSeq(s, from, Len(s))
       ELSE SubSeq(s, from, i - 1) \o StripFrom(s, FirstClose(s, i) + 1)
StripTokens(s) == StripFrom(s, 1)

\* how many newlines s has from position i on, without a break
NewlineRun(s, i) ==
    LET ks == {k \in 0..(Len(s) - i + 1) : \A j \in i..(i + k - 1) : s[j] = "\n"}
    IN CHOOSE k \in ks : \A j \in ks : j <= k

\* re.sub(r"\n{3,}", "\n\n", s)
RECURSIVE CollapseFrom(_, _)
CollapseFrom(s, from) ==
    LET i == Least({j \in from..Len(s) : NewlineRun(s, j) >= 3})
    IN IF i = 0 THEN SubSeq(s, from, Len(s))
       ELSE SubSeq(s, from, i - 1) \o <<"\n", "\n">> \o CollapseFrom(s, i + NewlineRun(s, i))
CollapseNewlines(s) == CollapseFrom(s, 1)

\* whitespace, and the characters \w matches: everything that is neither
\* whitespace nor punctuation
Spaces == {" ", "\n"}
Punctuation == {"{", "}", ".", "!", ",", "#", "%", "'"}
IsSpace(c) == c \in Spaces
IsWord(c) == c \notin Spaces \cup Punctuation

\* str.strip()
Strip(s) ==
    LET ix == {i \in 1..Len(s) : ~IsSpace(s[i])}
    IN IF ix = {} THEN <<>>
       ELSE SubSeq(s, CHOOSE i \in ix : \A k \in ix : i <= k, CHOOSE j \in ix : \A k \in ix : k <= j)

\* the cased letters, lower case beside upper case; a token name inside a text
\* is a run of letters taken as one
LowerCase == <<"a", "b", "c", "d", "e", "f", "g", "h", "i", "j", "k", "l", "m", "n", "o", "p",
               "q", "r", "s", "t", "u", "v", "w", "x", "y", "z", "title", "synopsis">>
UpperCase == <<"A", "B", "C", "D", "E", "F", "G", "H", "I", "J", "K", "L", "M", "N", "O", "P",
               "Q", "R", "S", "T", "U", "V", "W", "X", "Y", "Z", "Title", "Synopsis">>
Letters == {LowerCase[i] : i \in DOMAIN LowerCase} \cup {UpperCase[i] : i \in DOMAIN UpperCase}
LetterIndex(c) == CHOOSE i \in DOMAIN LowerCase : LowerCase[i] = c \/ UpperCase[i] = c
Upper(c) == IF c \in Letters THEN UpperCase[LetterIndex(c)] ELSE c
Lower(c) == IF c \in Letters THEN LowerCase[LetterIndex(c)] ELSE c

\* str.title(): a letter that follows a letter is lowered, any other letter raised
RECURSIVE TitleFrom(_, _)
TitleFrom(s, afterLetter) ==
    IF s = <<>> THEN s
    ELSE <<IF afterLetter THEN Lower(Head(s)) ELSE Upper(Head(s))>>
         \o TitleFrom(Tail(s), Head(s) \in Letters)
TitleCase(s) == TitleFrom(s, FALSE)

\* how many leading elements of s are (in = TRUE) or are not (in = FALSE) in S
PrefixLen(s, S, in) ==
    LET ks == {k \in 0..Len(s) : \A i \in 1..k : (s[i] \in S) = in}
    IN CHOOSE k \in ks : \A j \in ks : j <= k

\* str.split(): the runs of non-whitespace
RECURSIVE SplitWords(_)
SplitWords(s) ==
    LET t == SubSeq(s, PrefixLen(s, Spaces, TRUE) + 1, Len(s))
        n == PrefixLen(t, Spaces, FALSE)
    IN IF t = <<>> THEN <<>> ELSE <<SubSeq(t, 1, n)>> \o SplitWords(SubSeq(t, n + 1, Len(t)))

\* str.split(sep): the pieces between the separators, empty ones included
RECURSIVE SplitOn(_, _)
SplitOn(s, sep) ==
    LET n == PrefixLen(s, {sep}, FALSE)
    IN IF n = Len(s) THEN <<s>> ELSE <<SubSeq(s, 1, n)>> \o SplitOn(SubSeq(s, n + 2, Len(s)), sep)

\* sep.join(parts)
RECURSIVE Join(_, _)
Join(parts, sep) ==
    IF parts = <<>> THEN <<>>
    ELSE IF Len(parts) = 1 THEN parts[1]
    ELSE parts[1] \o sep \o Join(Tail(parts), sep)

\* re.sub(r"[^\w\s]", "", title)
KeepInTag(c) == IsWord(c) \/ IsSpace(c)
CleanTitle(title) == SelectSeq(title, KeepInTag)

\* "#" + "_".join(clean.split()).title()
TitleTag(title) == <<"#">> \o TitleCase(Join(SplitWords(CleanTitle(title)), <<"_">>))

\* cat_map.get(category, "")
CategoryTag(cat) ==
    CASE cat = "movie" -> <<"#", "Movie">>
      [] cat = "tvshow" -> <<"#", "TVShow">>
      [] cat = "anime" -> <<"#", "Anime">>
      [] cat = "manhwa" -> <<"#", "Manhwa">>
      [] OTHER -> <<>>

\* a derivation that takes every genre entry
GenreEntriesAll(genres) == SplitOn(genres, ",")

\* genres.split(",")[:3]
GenreEntries(genres) ==
    LET all == SplitOn(genres, ",") IN SubSeq(all, 1, IF Len(all) < 3 THEN Len(all) ELSE 3)

\* the tag of one genre entry, empty for an entry that strips to nothing
NotBlank(c) == c # " "
GenreTag(g) == IF Strip(g) = <<>> THEN <<>> ELSE <<"#">> \o SelectSeq(Strip(g), NotBlank)

\* the tags before filter(None, ...)
AllTags(title, cat, genres) ==
    <<TitleTag(title), CategoryTag(cat)>>
    \o [i \in 1..Len(GenreEntries(genres)) |-> GenreTag(GenreEntries(genres)[i])]

\* _make_hashtags
NotEmpty(t) == t # <<>>
MakeHashtags(title, cat, genres) == Join(SelectSeq(AllTags(title, cat, genres), NotEmpty), <<" ">>)

\* meta.get(key, default)
FieldOr(f, default) == IF f.k = "absent" THEN default ELSE f

\* Python truth of a field value
TruthyField(f) == f.k \notin {"absent", "none"} /\ f.s # <<>> /\ f.s # <<"0">>

\* str(value)
PyText(v) == IF v.k = "none" THEN <<"None">> ELSE v.s

\* `f"{r}%" if isinstance(r, int) else str(r)` with r = meta.get("rating", 0)
PercentRating(meta) ==
    LET r == FieldOr(meta["rating"], Whole("0"))
    IN IF r.k = "int" THEN Str(r.s \o <<"%">>) ELSE Str(PyText(r))

\* the entries _build_tokens adds for the category, as pairs of key and value
CategoryTokens(cat, meta) ==
    LET G(key, default) == <<key, FieldOr(meta[key], Str(default))>>
    IN CASE cat = "movie" ->
              <<G("release_date", <<"N/A">>), G("overview", <<"N/A">>), G("runtime", <<"N/A">>),
                G("status", <<"N/A">>), G("tagline", <<>>), G("language", <<"N/A">>)>>
         [] cat = "tvshow" ->
              <<G("release_date", <<"N/A">>), G("overview", <<"N/A">>), G("status", <<"N/A">>),
                G("seasons", <<"N/A">>), G("episodes", <<"N/A">>), G("network", <<"N/A">>),
                G("language", <<"N/A">>)>>
         [] cat = "anime" ->
              <<G("title_jp", <<>>), G("synopsis", <<"N/A">>), G("status", <<"N/A">>),
                G("episodes", <<"?">>), G("type", <<"TV">>), G("aired", <<"N/A">>),
                G("studio", <<"N/A">>), G("source", <<"N/A">>), G("season", <<"N/A">>)>>
         [] cat = "manhwa" ->
              <<G("title_native", <<>>), G("synopsis", <<"N/A">>), G("status", <<"N/A">>),
                G("chapters", <<"Ongoing">>), G("volumes", <<"N/A">>), G("type", <<"MANHWA">>),
                G("published", <<"N/A">>)>>
         [] OTHER -> <<>>

\* _build_tokens: the dict as pairs of key and value, in insertion order
BuildTokens(cat, meta, settings) ==
    LET G(key, default) == <<key, FieldOr(meta[key], Str(default))>>
        title == FieldOr(meta["title"], Str(<<"Unknown">>))
        raw_genres == IF TruthyField(meta["genres"]) THEN meta["genres"] ELSE Str(<<>>)
        imdb_str == IF TruthyField(meta["imdb_rating"]) THEN PyText(meta["imdb_rating"])
                    ELSE PyText(FieldOr(meta["rating"], Str(<<"N/A">>)))
        quality == IF TruthyField(settings.quality) THEN settings.quality
                   ELSE Str(<<"480p | 720p | 1080p">>)
        audio == IF TruthyField(settings.audio) THEN settings.audio ELSE Str(<<"Hindi | English">>)
    IN << <<"title", title>>,
          G("year", <<>>),
          IF cat \in {"anime", "manhwa"} THEN <<"rating", PercentRating(meta)>>
                                        ELSE G("rating", <<"N/A">>),
          <<"imdb_rating", Str(imdb_str)>>,
          G("imdb_votes", <<"N/A">>),
          G("imdb_url", <<>>),
          G("content_rating", <<"N/A">>),
          G("box_office", <<"N/A">>),
          G("awards", <<"N/A">>),
          G("metacritic", <<"N/A">>),
          <<"genres", raw_genres>>,
          <<"quality", quality>>,
          <<"audio", audio>>,
          <<"hashtags", Str(MakeHashtags(title.s, cat, raw_genres.s))>> >>
       \o CategoryTokens(cat, meta)

\* `str(value) if value is not None else "N/A"`
ValueText(v) == IF v.k = "none" THEN <<"N/A">> ELSE v.s

\* _substitute, the loop over tokens.items(); a text that has become empty stays empty
RECURSIVE ReplaceAll(_, _)
ReplaceAll(s, toks) ==
    IF toks = <<>> \/ s = <<>> THEN s
    ELSE LET r == StrReplace(s, <<"{", Head(toks)[1], "}">>, ValueText(Head(toks)[2]))
         IN IF r = <<>> THEN r ELSE ReplaceAll(r, Tail(toks))

\* _substitute
Substitute(tpl, toks) == Strip(CollapseNewlines(StripTokens(ReplaceAll(tpl, toks))))

\* a token in a template
T(key) == <<"{", key, "}">>

\* DEFAULT_MOVIE_FORMAT, DEFAULT_TV_FORMAT, DEFAULT_ANIME_FORMAT, DEFAULT_MANHWA_FORMAT,
\* the pictographs and line-drawing characters written as ASCII names
DefaultTemplate(cat) ==
    CASE cat = "movie" ->
           <<"[film] ">> \o T("title") \o <<" (">> \o T("year") \o <<")", "\n", "\n">>
           \o <<"+- [globe] Audio        >> ">> \o T("audio") \o <<"\n">>
           \o <<"|- [frames] Quality      >> ">> \o T("quality") \o <<"\n">>
           \o <<"|- [star] IMDb          >> ">> \o T("imdb_rating") \o <<"/10 (">> \o T("imdb_votes")
              \o <<" votes)", "\n">>
           \o <<"|- [masks] Genre        >> ">> \o T("genres") \o <<"\n">>
           \o <<"|- [18] Rating       >> ">> \o T("content_rating") \o <<"\n">>
           \o <<"|- [watch] Runtime      >> ">> \o T("runtime") \o <<"\n">>
           \o <<"L- [calendar] Released     >> ">> \o T("release_date") \o <<"\n", "\n">>
           \o <<"[memo] ">> \o T("overview") \o <<"\n", "\n">> \o T("hashtags") \o <<"\n">>
      [] cat = "tvshow" ->
           <<"[tv] ">> \o T("title") \o <<" (">> \o T("year") \o <<")", "\n", "\n">>
           \o <<"+- [globe] Audio        >> ">> \o T("audio") \o <<"\n">>
           \o <<"|- [frames] Quality      >> ">> \o T("quality") \o <<"\n">>
           \o <<"|- [star] IMDb          >> ">> \o T("imdb_rating") \o <<"/10 (">> \o T("imdb_votes")
              \o <<" votes)", "\n">>
           \o <<"|- [masks] Genre        >> ">> \o T("genres") \o <<"\n">>
           \o <<"|- [dish] Status       >> ">> \o T("status") \o <<"\n">>
           \o <<"|- [calendar] Seasons      >> ">> \o T("seasons") \o <<"\n">>
           \o <<"|- [clipboard] Episodes     >> ">> \o T("episodes") \o <<"\n">>
           \o <<"L- [office] Network      >> ">> \o T("network") \o <<"\n", "\n">>
           \o <<"[memo] ">> \o T("overview") \o <<"\n", "\n">> \o T("hashtags") \o <<"\n">>
      [] cat = "anime" ->
           <<"[blossom] ">> \o T("title") \o <<"\n", "\n">>
           \o <<"+- [pin] Type         >> ">> \o T("type") \o <<"\n">>
           \o <<"|- [star] MAL Rating    >> ">> \o T("rating") \o <<"%", "\n">>
           \o <<"|- [dish] Status       >> ">> \o T("status") \o <<"\n">>
           \o <<"|- [clipboard] Episodes     >> ">> \o T("episodes") \o <<"\n">>
           \o <<"|- [masks] Genre        >> ">> \o T("genres") \o <<"\n">>
           \o <<"|- [mic] Studio       >> ">> \o T("studio") \o <<"\n">>
           \o <<"L- [calendar] Aired        >> ">> \o T("aired") \o <<"\n", "\n">>
           \o <<"[memo] ">> \o T("synopsis") \o <<"\n", "\n">> \o T("hashtags") \o <<"\n">>
      [] cat = "manhwa" ->
           <<"[book] ">> \o T("title") \o <<"\n", "\n">>
           \o <<"+- [pin] Type         >> ">> \o T("type") \o <<"\n">>
           \o <<"|- [star] Rating        >> ">> \o T("rating") \o <<"%", "\n">>
           \o <<"|- [dish] Status       >> ">> \o T("status") \o <<"\n">>
           \o <<"|- [books] Chapters     >> ">> \o T("chapters") \o <<"\n">>
           \o <<"|- [masks] Genre        >> ">> \o T("genres") \o <<"\n">>
           \o <<"L- [calendar] Published    >> ">> \o T("published") \o <<"\n", "\n">>
           \o <<"[memo] ">> \o T("synopsis") \o <<"\n", "\n">> \o T("hashtags") \o <<"\n">>
      [] OTHER -> T("title")

\* FormatEngine.render; an empty template counts as none (`template or ...`)
Render(cat, meta, template, settings) ==
    Substitute(IF template = <<>> THEN DefaultTemplate(cat) ELSE template,
               BuildTokens(cat, meta, settings))

\* re.sub in _make_hashtags raises TypeError on a title that is no str, and
\* split is no attribute of a genres value that is no str
RenderError(meta) ==
    IF FieldOr(meta["title"], Str(<<"Unknown">>)).k # "str" THEN "TypeError"
    ELSE IF TruthyField(meta["genres"]) /\ meta["genres"].k # "str" THEN "AttributeError"
    ELSE "none"
RenderRaises(meta) == RenderError(meta) # "none"

RenderCats == {"movie", "anime"}
TitleVals == {Absent, Null, Str(<<"t">>), Str(<<"{", "synopsis", "}">>), Str(<<"{">>)}
SynopsisVals == {Absent, Null, Str(<<"{", "title", "}">>)}

\* a "{", one or more characters other than "}", and a "}"
HasPlaceholder(s) ==
    \E i \in 1..Len(s), j \in 1..Len(s) :
        /\ j > i + 1
        /\ s[i] = "{" /\ s[j] = "}"
        /\ \A k \in (i + 1)..(j - 1) : s[k] # "}"

\* the session store and the handlers stand still
RestIdle ==
    /\ impl = "state_manager"
    /\ redisOn = FALSE
    /\ redis = EmptyRedis
    /\ mem = EmptyMem
    /\ ticks = 0
    /\ last = NoOp
    /\ PairIdle
    /\ CtlIdle

InitRender ==
    /\ RestIdle
    /\ AuxIdle
    /\ rn \in [cat : RenderCats, tpl : Text(MaxTemplate), title : TitleVals,
               synopsis : SynopsisVals, out : {<<>>}, done : {"no"}]

\* the metadata record of a call in which only title and synopsis vary
MetaOfCall(r) == [NoMeta EXCEPT !["title"] = r.title, !["synopsis"] = r.synopsis]

\* one call of render
DoRender ==
    /\ rn.done = "no"
    /\ rn' = IF RenderRaises(MetaOfCall(rn))
             THEN [rn EXCEPT !.done = "TypeError"]
             ELSE [rn EXCEPT !.out = Render(rn.cat, MetaOfCall(rn), rn.tpl, NoSettings),
                             !.done = "yes"]
    /\ UNCHANGED <<storeVars, last, pairVars, ctlVars, auxVars>>

NextRender == DoRender
SpecRender == InitRender /\ [][NextRender]_vars

(***************************************************************************)
(* render on metadata that holds a title and one more field                *)
(***************************************************************************)

FieldVals ==
    {Absent, Null, Str(<<>>), Str(<<"x">>), Whole("0"), Whole("85"), Decimal("8.5")}

\* the template of a call: the token of the field alone, or none (the default)
TemplateOfField(r) == IF r.own THEN T(r.key) ELSE <<>>

\* the metadata record of a call: a plain title, and the field with its value
MetaOfField(r) == [[NoMeta EXCEPT !["title"] = Str(<<"t">>)] EXCEPT ![r.key] = r.val]

\* whether key is a key of the token dict of the category
IsToken(cat, key) ==
    \E i \in 1..Len(BuildTokens(cat, NoMeta, NoSettings)) :
        BuildTokens(cat, NoMeta, NoSettings)[i][1] = key

InitTokens ==
    /\ RestIdle
    /\ AuxIdle
    /\ rn \in [cat : RoutedCategories, key : MetaKeys, val : FieldVals, own : BOOLEAN,
               out : {<<>>}, done : {"no"}]

\* one call of render
DoRenderField ==
    /\ rn.done = "no"
    /\ rn' = IF RenderRaises(MetaOfField(rn))
             THEN [rn EXCEPT !.done = RenderError(MetaOfField(rn))]
             ELSE [rn EXCEPT !.out = Render(rn.cat, MetaOfField(rn), TemplateOfField(rn),
                                            NoSettings),
                             !.done = "yes"]
    /\ UNCHANGED <<storeVars, last, pairVars, ctlVars, auxVars>>

NextTokens == DoRenderField
SpecTokens == InitTokens /\ [][NextTokens]_vars

(***************************************************************************)
(* _make_hashtags on titles and genre strings                              *)
(***************************************************************************)

MaxTitle == 3
MaxGenres == 4

\* the texts of at most n characters over the alphabet A
TextOver(A, n) == UNION {[1..m -> A] : m \in 0..n}

DrStrange == <<"D", "r", ".", " ", "S", "t", "r", "a", "n", "g", "e", "!">>
FourGenres == <<"Action", ",", " ", "Adventure", ",", " ", "Fantasy", ",", " ", "Drama">>
Titles == TextOver({"a", " ", "!"}, MaxTitle) \cup {DrStrange}
GenreTexts == TextOver({"g", ",", " "}, MaxGenres) \cup {FourGenres}

InitTags ==
    /\ RestIdle
    /\ AuxIdle
    /\ rn \in [title : Titles, cat : RoutedCategories, genres : GenreTexts,
               out : {<<>>}, done : {"no"}]

\* one call of _make_hashtags
DoHashtags ==
    /\ rn.done = "no"
    /\ rn' = [rn EXCEPT !.out = MakeHashtags(rn.title, rn.cat, rn.genres), !.done = "yes"]
    /\ UNCHANGED <<storeVars, last, pairVars, ctlVars, auxVars>>

NextTags == DoHashtags
SpecTags == InitTags /\ [][NextTags]_vars

(***************************************************************************)
(* TemplateHandler: the wizard that names and stores a template            *)
(***************************************************************************)

MaxBody == 3
MaxBuilderEvents == 4
NAME_LIMIT == 32

BuilderChars == {"{", "title", "}"}
SpacedText == <<"title", " ", "title">>
BuilderTexts == TextOver(BuilderChars, MaxBody) \cup {SpacedText}

\* a validation that accepts every body
BodyValidAlways(text) == TRUE

\* whether text holds the characters {title} in a row
HasTitleToken(text) == \E i \in 1..(Len(text) - 2) : SubSeq(text, i, i + 2) = T("title")

\* `"{title}" in text`
BodyValid(text) == HasTitleToken(text)

\* `len(text) > 32 or " " in text`
NameRefused(text) == Len(text) > NAME_LIMIT \/ \E i \in 1..Len(text) : text[i] = " "

\* save_template: update_one with upsert on (user_id, name)
SaveTemplate(templates, name, body) ==
    {p \in templates : p[1] # name} \cup {<<name, body>>}

\* delete_template
DeleteTemplate(templates, name) == {p \in templates : p[1] # name}

TemplateNames(templates) == {p[1] : p \in templates}

InitBuilder ==
    /\ RestIdle
    /\ FmtIdle
    /\ ThumbIdle
    /\ FetchIdle
    /\ BroadcastIdle
    /\ tb = [NoBuilder EXCEPT !.left = MaxBuilderEvents]

BuilderRest == UNCHANGED <<storeVars, last, pairVars, ctlVars, fmtVars, th, ft, bc>>

\* set_format_start, and callback "tpl_new"
SetFormatStart ==
    /\ tb.left > 0
    /\ tb' = [tb EXCEPT !.session = [NoSession EXCEPT !.some = TRUE,
                                                      !.awaiting_template_name = TRUE],
                        !.op = "start", !.text = <<>>, !.reply = "started",
                        !.left = tb.left - 1]
    /\ BuilderRest

\* handle_text, reached from _route_text while one of the two flags is set
HandleText(message) ==
    LET text == Strip(message)
        state == tb.session
        heard == [tb EXCEPT !.op = "text", !.text = message, !.left = tb.left - 1]
    IN /\ tb.left > 0
       /\ state.some
       /\ state.awaiting_template_name \/ state.awaiting_template_body
       /\ tb' = IF state.awaiting_template_name
                THEN IF NameRefused(text)
                     THEN [heard EXCEPT !.reply = "name_bad"]
                     ELSE [heard EXCEPT !.session = [state EXCEPT
                                                        !.awaiting_template_name = FALSE,
                                                        !.awaiting_template_body = TRUE,
                                                        !.template_name = text],
                                        !.reply = "name_ok"]
                ELSE IF ~BodyValid(text)
                     THEN [heard EXCEPT !.reply = "body_bad"]
                     ELSE [heard EXCEPT !.templates =
                                            SaveTemplate(tb.templates, state.template_name, text),
                                        !.active = state.template_name,
                                        !.session = NoSession,
                                        !.reply = "saved"]
       /\ BuilderRest

\* callback "tpl_use_<name>", from a button of the template list
TplUse(name) ==
    /\ tb.left > 0
    /\ tb' = [tb EXCEPT !.active = name, !.op = "use", !.text = name, !.reply = "used",
                        !.left = tb.left - 1]
    /\ BuilderRest

\* callback "tpl_del_<name>", from a button of the template list
TplDel(name) ==
    /\ tb.left > 0
    /\ tb' = [tb EXCEPT !.templates = DeleteTemplate(tb.templates, name),
                        !.active = IF tb.active = name THEN <<"default">> ELSE tb.active,
                        !.op = "del", !.text = name, !.reply = "deleted",
                        !.left = tb.left - 1]
    /\ BuilderRest

NextBuilder ==
    \/ SetFormatStart
    \/ \E message \in BuilderTexts : HandleText(message)
    \/ \E name \in TemplateNames(tb.templates) : TplUse(name)
    \/ \E name \in TemplateNames(tb.templates) : TplDel(name)
SpecBuilder == InitBuilder /\ [][NextBuilder]_vars

(***************************************************************************)
(* thumbnail/processor.py: images as sizes and the origin of their content *)
(***************************************************************************)

MaxSide == 2
THUMBNAIL_W == 1280
THUMBNAIL_H == 720
PLACEHOLDER_W == 400
PLACEHOLDER_H == 600

Sides == 1..MaxSide \cup {THUMBNAIL_H, THUMBNAIL_W}
Pictures(origin) == [w : Sides, h : Sides, origin : {origin}]
NoImage == [w |-> 0, h |-> 0, origin |-> "none"]

\* what a server does with the request for an image: it sends an image, sends
\* bytes that are no image, answers with another status, or the request times
\* out or fails
ImageReplies(origin) ==
    [kind : {"image"}, img : Pictures(origin)]
    \cup [kind : {"garbage", "status", "timeout", "error"}, img : {NoImage}]

\* bytes handed over by the caller: none (None or empty), an image, or bytes
\* that are no image
Uploads == {[kind |-> "none", img |-> NoImage], [kind |-> "garbage", img |-> NoImage]}
           \cup [kind : {"image"}, img : Pictures("custom")]

\* a resize that leaves the size alone
ResizeKeeps(img, w, h) == img

\* Image.resize((w, h))
Resize(img, w, h) == [img EXCEPT !.w = w, !.h = h]

\* Image.new(mode, (w, h))
NewImage(w, h, origin) == [w |-> w, h |-> h, origin |-> origin]

\* a download that lets the failure of the request pass to its caller
DownloadImageRaising(reply) ==
    [raised |-> reply.kind # "image", img |-> reply.img]

\* download_image: an image for status 200 and decodable bytes, None otherwise
DownloadImage(reply) ==
    [raised |-> FALSE, img |-> IF reply.kind = "image" THEN reply.img ELSE NoImage]

\* _add_watermark: alpha_composite of img and an overlay of img.size
AddWatermark(img, text) == img

\* _create_banner_card: everything is pasted into a canvas of THUMBNAIL_SIZE
CreateBannerCard(poster, banner, watermark) ==
    LET canvas == NewImage(THUMBNAIL_W, THUMBNAIL_H, "canvas")
        bg == Resize(IF banner # NoImage THEN banner ELSE poster, THUMBNAIL_W, THUMBNAIL_H)
        marked == IF watermark # "" THEN AddWatermark(canvas, watermark) ELSE canvas
    IN [fmt |-> "RGB", w |-> marked.w, h |-> marked.h, poster |-> poster.origin,
        bg |-> bg.origin, watermark |-> watermark]

\* Image.save(buf, format="JPEG")
Jpeg(img) == [img EXCEPT !.fmt = "JPEG"]

\* build_thumbnail
BuildThumbnail(hasPoster, posterReply, hasBackdrop, backdropReply, watermark, custom) ==
    LET got == IF custom.kind # "none" THEN [raised |-> custom.kind = "garbage", img |-> custom.img]
               ELSE IF hasPoster THEN DownloadImage(posterReply)
               ELSE [raised |-> FALSE, img |-> NoImage]
        poster == IF got.img = NoImage
                  THEN NewImage(PLACEHOLDER_W, PLACEHOLDER_H, "No Image")
                  ELSE got.img
        back == IF hasBackdrop THEN DownloadImage(backdropReply)
                ELSE [raised |-> FALSE, img |-> NoImage]
    IN IF got.raised \/ back.raised
       THEN [done |-> "raised", out |-> Jpeg(CreateBannerCard(NoImage, NoImage, ""))]
       ELSE [done |-> "returned", out |-> Jpeg(CreateBannerCard(poster, back.img, watermark))]

\* process_custom_thumbnail
ProcessCustomThumbnail(photo, watermark) ==
    LET img == Resize(photo.img, THUMBNAIL_W, THUMBNAIL_H)
        marked == IF watermark # "" THEN AddWatermark(img, watermark) ELSE img
    IN IF photo.kind # "image"
       THEN [done |-> "raised", out |-> Jpeg(CreateBannerCard(NoImage, NoImage, ""))]
       ELSE [done |-> "returned",
             out |-> [fmt |-> "JPEG", w |-> marked.w, h |-> marked.h, poster |-> "custom",
                      bg |-> "custom", watermark |-> watermark]]

Watermarks == {"", "wm"}

InitThumb ==
    /\ RestIdle
    /\ FmtIdle
    /\ BuilderIdle
    /\ FetchIdle
    /\ BroadcastIdle
    /\ \/ th \in [fn : {"build_thumbnail"}, hasPoster : BOOLEAN, poster : ImageReplies("poster"),
                  hasBackdrop : BOOLEAN, backdrop : ImageReplies("backdrop"),
                  watermark : Watermarks, custom : Uploads, done : {"no"}]
       \/ th \in [fn : {"process_custom_thumbnail"}, watermark : Watermarks,
                  custom : Uploads \ {[kind |-> "none", img |-> NoImage]}, done : {"no"}]

ThumbRest == UNCHANGED <<storeVars, last, pairVars, ctlVars, fmtVars, tb, ft, bc>>

\* one call of build_thumbnail
DoBuildThumbnail ==
    /\ th.fn = "build_thumbnail"
    /\ th.done = "no"
    /\ LET r == BuildThumbnail(th.hasPoster, th.poster, th.hasBackdrop, th.backdrop,
                               th.watermark, th.custom)
       IN th' = [fn |-> th.fn, call |-> th, done |-> r.done, out |-> r.out]
    /\ ThumbRest

\* one call of process_custom_thumbnail
DoProcessCustom ==
    /\ th.fn = "process_custom_thumbnail"
    /\ th.done = "no"
    /\ LET r == ProcessCustomThumbnail(th.custom, th.watermark)
       IN th' = [fn |-> th.fn, call |-> th, done |-> r.done, out |-> r.out]
    /\ ThumbRest

NextThumb == DoBuildThumbnail \/ DoProcessCustom
SpecThumb == InitThumb /\ [][NextThumb]_vars

(***************************************************************************)
(* The network calls: fetchers, image download, post to the channel        *)
(***************************************************************************)

MaxReplies == 2

\* what the server does with one request: status 200 with records, status 200
\* without records, status 429, another status, or no answer in time
ReplyKinds == {"ok", "empty", "429", "status", "timeout"}
ReplyScripts == [1..MaxReplies -> ReplyKinds]

SearchCalls == {"search_anime", "search_manhwa", "search_movies"}
DetailCalls == {"get_anime", "get_manhwa", "tmdb_detail"}
OtherCalls == {"download_image", "post_to_channel"}

\* JikanFetcher._get: on status 429 the request is sent a second time
JikanGet(replies) ==
    IF replies[1] \in {"ok", "empty"} THEN [reqs |-> 1, data |-> replies[1]]
    ELSE IF replies[1] = "429"
    THEN [reqs |-> 2, data |-> IF replies[2] \in {"ok", "empty"} THEN replies[2] ELSE "None"]
    ELSE [reqs |-> 1, data |-> "None"]

\* TMDbFetcher._get, AniListFetcher._gql, download_image, post_to_channel: one
\* request inside try ... except Exception
OneRequest(reply) ==
    [reqs |-> 1, data |-> IF reply \in {"ok", "empty"} THEN reply ELSE "None"]

\* AniListFetcher.search_manhwa: a second query without the format when the
\* first one brought no records
SearchManhwa(replies) ==
    LET first == OneRequest(replies[1])
        second == OneRequest(replies[2])
    IN IF first.data = "ok" THEN first
       ELSE [reqs |-> first.reqs + second.reqs, data |-> second.data]

\* what the call hands to its caller: records, an empty list, or None
Answer(fn, data) ==
    IF data = "ok" THEN "records"
    ELSE IF fn \in SearchCalls THEN "empty list"
    ELSE IF fn = "post_to_channel" THEN "False"
    ELSE "None"

InitFetch ==
    /\ RestIdle
    /\ FmtIdle
    /\ BuilderIdle
    /\ ThumbIdle
    /\ BroadcastIdle
    /\ ft \in [fn : SearchCalls \cup DetailCalls \cup OtherCalls, replies : ReplyScripts,
               done : {"no"}]

FetchRest == UNCHANGED <<storeVars, last, pairVars, ctlVars, fmtVars, tb, th, bc>>
Returned(r) ==
    [fn |-> ft.fn, replies |-> ft.replies, done |-> "returned", reqs |-> r.reqs,
     out |-> Answer(ft.fn, r.data)]

\* JikanFetcher.search_anime and get_anime
JikanCall ==
    /\ ft.done = "no"
    /\ ft.fn \in {"search_anime", "get_anime"}
    /\ ft' = Returned(JikanGet(ft.replies))
    /\ FetchRest

\* AniListFetcher.search_manhwa and get_manhwa
AniListCall ==
    /\ ft.done = "no"
    /\ ft.fn \in {"search_manhwa", "get_manhwa"}
    /\ ft' = Returned(IF ft.fn = "search_manhwa" THEN SearchManhwa(ft.replies)
                      ELSE OneRequest(ft.replies[1]))
    /\ FetchRest

\* TMDbFetcher.search_movies, search_tv, and the TMDb request of get_movie and get_tv
TmdbCall ==
    /\ ft.done = "no"
    /\ ft.fn \in {"search_movies", "tmdb_detail"}
    /\ ft' = Returned(OneRequest(ft.replies[1]))
    /\ FetchRest

\* download_image and post_to_channel
OtherCall ==
    /\ ft.done = "no"
    /\ ft.fn \in OtherCalls
    /\ ft' = Returned(OneRequest(ft.replies[1]))
    /\ FetchRest

NextFetch == JikanCall \/ AniListCall \/ TmdbCall \/ OtherCall
SpecFetch == InitFetch /\ [][NextFetch]_vars

\* ---------------------------------------------------------------------------
\* Two taps on "select" by one user: BaseHandler._on_select runs in two handler
\* slots of u1, each with the record its own _fetch_detail returned
\* ---------------------------------------------------------------------------
MaxRaceEvents == 4
RaceSlots == {"a", "b"}
RaceMetas == {"m1", "m2"}

InitRace ==
    /\ impl = "state_manager"
    /\ redisOn \in BOOLEAN
    /\ redis = EmptyRedis
    /\ mem = EmptyMem
    /\ ticks = 0
    /\ last = NoOp
    /\ PairIdle
    /\ CtlStart(MaxRaceEvents)
    /\ FmtIdle
    /\ AuxIdle

NextRace ==
    \/ \E res \in Results, ok \in BOOLEAN : Search("u1", "movie", res, ok)
    \/ \E s \in RaceSlots, meta \in RaceMetas, ok \in BOOLEAN : Select(s, "movie", meta, ok)
    \/ \E s \in RaceSlots, ok \in BOOLEAN : UpdWrite(s, ok)

SpecRace == InitRace /\ [][NextRace]_vars

\* ---------------------------------------------------------------------------
\* A cancel that arrives while a select, or a skip with its preview build, of the
\* same user is suspended in a store call
\* ---------------------------------------------------------------------------
MaxCancelEvents == 4

InitCancel ==
    /\ impl = "state_manager"
    /\ redisOn \in BOOLEAN
    /\ redis = EmptyRedis
    /\ mem = EmptyMem
    /\ ticks = 0
    /\ last = NoOp
    /\ PairIdle
    /\ CtlStart(MaxCancelEvents)
    /\ FmtIdle
    /\ AuxIdle

NextCancel ==
    \/ \E res \in Results, ok \in BOOLEAN : Search("u1", "movie", res, ok)
    \/ \E meta \in Metas, ok \in BOOLEAN : Select("a", "movie", meta, ok)
    \/ \E ok \in BOOLEAN : ThumbSkip("a", "movie", ok)
    \/ \E ok \in BOOLEAN : UpdWrite("a", ok)
    \/ \E ok \in BOOLEAN : PreviewGet("a", ok)
    \/ PreviewRead("a")
    \/ \E body \in Bodies, dec \in BOOLEAN, ok \in BOOLEAN : PreviewBuild("a", body, dec, ok)
    \/ \E ok \in BOOLEAN : Cancel("u1", ok)

SpecCancel == InitCancel /\ [][NextCancel]_vars

\* ---------------------------------------------------------------------------
\* Two taps on "post to channel" by one user: BaseHandler._on_post_channel runs in
\* two handler slots of u1 after a preview was built in slot a
\* ---------------------------------------------------------------------------
MaxPostEvents == 5

InitPost ==
    /\ impl = "state_manager"
    /\ redisOn \in BOOLEAN
    /\ redis = EmptyRedis
    /\ mem = EmptyMem
    /\ ticks = 0
    /\ last = NoOp
    /\ PairIdle
    /\ CtlStart(MaxPostEvents)
    /\ FmtIdle
    /\ AuxIdle

NextPost ==
    \/ \E res \in Results, ok \in BOOLEAN : Search("u1", "movie", res, ok)
    \/ \E meta \in Metas, ok \in BOOLEAN : Select("a", "movie", meta, ok)
    \/ \E ok \in BOOLEAN : ThumbSkip("a", "movie", ok)
    \/ \E ok \in BOOLEAN : UpdWrite("a", ok)
    \/ \E ok \in BOOLEAN : PreviewGet("a", ok)
    \/ PreviewRead("a")
    \/ \E body \in Bodies, dec \in BOOLEAN, ok \in BOOLEAN : PreviewBuild("a", body, dec, ok)
    \/ \E s \in RaceSlots, ok \in BOOLEAN : PostGet(s, "movie", ok)
    \/ \E s \in RaceSlots, ch \in BOOLEAN, sent \in BOOLEAN : PostSend(s, ch, sent)
    \/ \E s \in RaceSlots, ok \in BOOLEAN : PostClear(s, ok)

SpecPost == InitPost /\ [][NextPost]_vars

\* ---------------------------------------------------------------------------
\* The flags that say which input a user's next message is: set by the content
\* flow, the settings menu, the template wizard and the admin panel, read by
\* _route_photo and _route_text.  The store answers every call here.
\* ---------------------------------------------------------------------------
MaxInputEvents == 3
Admins == {"u1"}                      \* ADMIN_IDS: u1 is an admin, u2 is not
InputSlots == {"a", "c"}
InputFlags ==
    {"awaiting_thumbnail", "awaiting_template_name", "awaiting_template_body",
     "awaiting_watermark", "awaiting_channel", "awaiting_broadcast"}
StartFlags == {"awaiting_template_name", "awaiting_watermark", "awaiting_channel"}
FlagsOn(d) == {f \in InputFlags : Truthy(DictGet(d, f))}

\* `await self.sm.set_state(user_id, {flag: True})`
StoreFlag(u, flag, h) ==
    LET d == [k \in {flag} |-> PyBool(TRUE)]
        w == SetState(impl, redisOn, redis, mem, u, d, DEFAULT_TTL, TRUE)
    IN /\ redis' = w.r
       /\ mem' = w.m
       /\ hs' = IF redisOn THEN hs ELSE Detached(hs, u)
       /\ ev' = Event(h, u, "ok", "movie", d)

\* SettingsHandler.callback "settings_watermark" / "settings_channel",
\* set_watermark, set_channel, TemplateHandler.set_format_start
AskInput(u, flag) ==
    /\ left > 0
    /\ left' = left - 1
    /\ StoreFlag(u, flag, "ask")
    /\ UNCHANGED <<impl, redisOn, ticks, last, pairVars, postCount, faults, fmtVars, auxVars>>

\* /broadcast: AdminHandler.broadcast behind the admin check of its decorator
BroadcastCommand(u) ==
    /\ left > 0
    /\ left' = left - 1
    /\ IF u \in Admins
       THEN StoreFlag(u, "awaiting_broadcast", "broadcast_cmd")
       ELSE /\ ev' = Event("broadcast_cmd", u, "denied", "movie", EmptyDict)
            /\ UNCHANGED <<redis, mem, hs>>
    /\ UNCHANGED <<impl, redisOn, ticks, last, pairVars, postCount, faults, fmtVars, auxVars>>

\* callback "admin_broadcast": AdminHandler.callback
AdminBroadcastCallback(u) ==
    /\ left > 0
    /\ left' = left - 1
    /\ StoreFlag(u, "awaiting_broadcast", "admin_cb")
    /\ UNCHANGED <<impl, redisOn, ticks, last, pairVars, postCount, faults, fmtVars, auxVars>>

\* which handler _route_text gives a text message to, and how that handler ends;
\* valid: the text passes the handler's check (template name, template body,
\* channel name)
TextOutcome(g, valid) ==
    LET on(k) == Truthy(DictGet(g.val, k))
    IN IF ~g.some \/ DOMAIN g.val = {} THEN "nostate"
       ELSE IF on("awaiting_template_name") THEN (IF valid THEN "name" ELSE "refused")
       ELSE IF on("awaiting_template_body") THEN (IF valid THEN "saved" ELSE "refused")
       ELSE IF on("awaiting_watermark") THEN "watermark"
       ELSE IF on("awaiting_channel") THEN (IF valid THEN "channel" ELSE "refused")
       ELSE IF on("awaiting_broadcast") THEN "broadcast"
       ELSE "unrouted"

\* a text message in the private chat: _route_text and the handler it picks.
\* TemplateHandler.handle_text moves from the name to the body with update_state;
\* the handlers that finish their input call clear_state; handle_broadcast_text
\* sends the text to every user.
RouteText(u, valid) ==
    LET out == TextOutcome(Stored(u), valid)
        upd == [awaiting_template_name |-> PyBool(FALSE),
                awaiting_template_body |-> PyBool(TRUE),
                template_name |-> PyStr("n")]
        g == UpdateMerge(redisOn, redis, mem, u, upd, TRUE)
        w == SetState(impl, redisOn, redis, g.m, u, g.cur, DEFAULT_TTL, TRUE)
        c == ClearState(redisOn, redis, mem, u, TRUE)
    IN /\ left > 0
       /\ left' = left - 1
       /\ IF out = "name"
          THEN /\ redis' = IF w.raised THEN redis ELSE w.r
               /\ mem' = IF w.raised THEN g.m ELSE w.m
               /\ hs' = IF redisOn THEN hs
                        ELSE IF g.inPlace THEN Mutated(hs, u, g.cur) ELSE Detached(hs, u)
               /\ ev' = Event("text", u, IF w.raised THEN "TypeError" ELSE out, "movie", upd)
          ELSE IF out \in {"saved", "watermark", "channel", "broadcast"}
          THEN /\ redis' = c.r
               /\ mem' = c.m
               /\ hs' = IF redisOn THEN hs ELSE Detached(hs, u)
               /\ ev' = Event("text", u, out, "movie", EmptyDict)
          ELSE /\ ev' = Event("text", u, out, "movie", EmptyDict)
               /\ UNCHANGED <<redis, mem, hs>>
       /\ bc' = IF out = "broadcast" THEN bc \cup {u} ELSE bc
       /\ UNCHANGED <<impl, redisOn, ticks, last, pairVars, postCount, faults, fmtVars, tb, th, ft>>

InitInput ==
    /\ impl = "state_manager"
    /\ redisOn \in BOOLEAN
    /\ redis = EmptyRedis
    /\ mem = EmptyMem
    /\ ticks = 0
    /\ last = NoOp
    /\ PairIdle
    /\ CtlStart(MaxInputEvents)
    /\ FmtIdle
    /\ AuxIdle

NextInput ==
    \/ \E u \in Users, res \in Results : Search(u, "movie", res, TRUE)
    \/ \E s \in InputSlots, meta \in Metas : Select(s, "movie", meta, TRUE)
    \/ \E s \in InputSlots : RedoThumb(s, "movie", TRUE)
    \/ \E s \in InputSlots : UpdWrite(s, TRUE)
    \/ \E u \in Users, flag \in StartFlags : AskInput(u, flag)
    \/ \E u \in Users : BroadcastCommand(u)
    \/ \E u \in Users : AdminBroadcastCallback(u)
    \/ \E u \in Users, valid \in BOOLEAN : RouteText(u, valid)

SpecInput == InitInput /\ [][NextInput]_vars

(***************************************************************************)
(* Properties of the session store                                         *)
(***************************************************************************)

\* C1: an update that completes on its backend leaves get(user) equal to the
\* previous state (the empty map when absent) overridden key by key with the
\* partial; on an absent session {x:1} gives exactly {x:1}, and {y:2} on top of
\* {x:1} gives exactly {x:1, y:2}.
C1_UpdateMerges ==
    (last.op = "update" /\ ~last.raised /\ ~last.failed /\ ~last.aged) =>
        LET prev == IF last.pre.some THEN last.pre.val ELSE EmptyDict
            now == Stored(last.user)
        IN /\ now.some
           /\ DOMAIN now.val = DOMAIN prev \cup DOMAIN last.arg
           /\ \A k \in DOMAIN last.arg : now.val[k] = last.arg[k]
           /\ \A k \in DOMAIN prev \ DOMAIN last.arg : now.val[k] = prev[k]
           /\ (~last.pre.some /\ last.arg = [x |-> PyInt("1")]) => now.val = [x |-> PyInt("1")]
           /\ (last.pre = Some([x |-> PyInt("1")]) /\ last.arg = [y |-> PyInt("2")])
                 => now.val = [x |-> PyInt("1"), y |-> PyInt("2")]

C1_Witness ==
    /\ last.op = "update" /\ ~last.raised /\ ~last.failed /\ ~last.aged
    /\ last.pre = Some([x |-> PyInt("1"), y |-> PyInt("2")])
    /\ last.arg = [x |-> PyInt("2")]
    /\ Stored(last.user) = Some([x |-> PyInt("2"), y |-> PyInt("2")])

\* C2: right after a set, update or clear that returned, get(user) returns what
\* that write stored (absent after a clear), Redis commands having failed or not.
C2_LastWriteWins ==
    (last.op \in {"set", "update", "clear"} /\ ~last.raised /\ ~last.aged) =>
        Stored(last.user) = last.wrote

\* C3: a state written with set(user, state, ttl) is returned by get while the
\* ttl has not elapsed and is absent once it has, on either backend.
C3_TtlExpiry ==
    (last.op = "set" /\ ~last.raised /\ ~last.failed) =>
        Stored(last.user) = IF last.ttl > 0 THEN Some(last.arg) ELSE None

\* C4 (as claimed): a get whose Redis read raised returns absent, whatever the
\* memory store holds for the user.
C4_ReadErrorAbsent ==
    (last.op = "get" /\ last.failed) => last.ret = None

\* C4 (amended): a get whose Redis read raised raises nothing and returns the
\* memory store's entry for the user, absent exactly when there is none.
C4_ReadErrorFallsBack ==
    (last.op = "get" /\ last.failed) =>
        /\ ~last.raised
        /\ last.ret.some = (last.user \in DOMAIN mem)
        /\ last.ret.some => last.ret.val = mem[last.user]

C4_Witness ==
    /\ last.op = "get" /\ last.failed
    /\ last.user \in DOMAIN mem
    /\ last.ret = Some(mem[last.user])
    /\ last.pre # last.ret

\* C7: for every sequence of get/set/update/clear calls with no backend failure
\* and no expiry, the store on Redis and the store on the memory fallback return
\* the same result for every get.
C7_BackendsAgree ==
    both.op = "get" => both.retN = both.retL

(***************************************************************************)
(* Properties of the conversation controller                               *)
(***************************************************************************)

\* C5: no set_state call a handler makes, directly or through update_state,
\* raises to the handler, for any state the handlers pass.
C5_SetNeverRaises == ev.out # "TypeError"

\* C6: a store operation or handler step made for user u leaves the entry of
\* every other user as it was, on Redis and in the memory store, whatever the
\* interleaving of the two users' events.
C6_NoCrossUser ==
    [][\A v \in Users : (ev'.h # "tick" /\ ev'.u # v) => Entry(v)' = Entry(v)]_vars

C6_Witness ==
    /\ ev.h = "select" /\ ev.u = "u1" /\ ev.out = "ok"
    /\ Stored("u1").some /\ "meta" \in DOMAIN Stored("u1").val
    /\ Stored("u2") = Some(SearchState("movie", "r1"))

\* C8: while no Redis command has failed a user has at most one entry, and after
\* a search that found results the stored session is exactly the category and
\* the new results, whatever the session held before.
C8_SearchReplaces ==
    faults = 0 =>
        /\ \A u \in Users : ~(u \in DOMAIN redis /\ u \in DOMAIN mem)
        /\ (ev.h = "search" /\ ev.out = "ok") =>
              /\ Stored(ev.u) = Some([category |-> PyStr(ev.cat), search_results |-> PyObj(ev.got)])
              /\ DOMAIN Stored(ev.u).val = {"category", "search_results"}

C8_Witness ==
    /\ faults = 0
    /\ ev.h = "search" /\ ev.out = "ok" /\ ev.was = "PREVIEW"
    /\ Stored(ev.u) = Some([category |-> PyStr("anime"), search_results |-> PyObj("r1")])

C10_FailedSelect ==
    [][\A u \in Users : (ev'.h = "select" /\ ev'.u = u /\ ev'.got = "none") =>
          /\ Entry(u)' = Entry(u)
          /\ Flow(Stored(u)) = "SELECTING" =>
                /\ Flow(Stored(u))' = "SELECTING"
                /\ Stored(u)'.val["search_results"] = Stored(u).val["search_results"]
                /\ "meta" \notin DOMAIN Stored(u)'.val
                /\ ~Truthy(DictGet(Stored(u)'.val, "awaiting_thumbnail"))]_vars

C10_Witness ==
    /\ ev.h = "select" /\ ev.got = "none" /\ ev.out = "nodetail"
    /\ ev.was = "SELECTING"
    /\ Flow(Stored(ev.u)) = "SELECTING"

\* C11: a post to the channel that post_to_channel answers with False leaves the
\* user's entry as it was (a flow in PREVIEW stays in PREVIEW with the same
\* caption and image), leaves every post count as it was, and ends the handler
\* without a second attempt.
C11_FailedPost ==
    [][\A u \in Users : (ev'.h = "post" /\ ev'.u = u /\ ev'.got = "False") =>
          /\ Entry(u)' = Entry(u)
          /\ postCount' = postCount
          /\ Flow(Stored(u)) = "PREVIEW" =>
                /\ Flow(Stored(u))' = "PREVIEW"
                /\ Stored(u)'.val["caption"] = Stored(u).val["caption"]
                /\ Stored(u)'.val["thumb_bytes"] = Stored(u).val["thumb_bytes"]
          /\ \A s \in Slots : (SlotUser(s) = u /\ hs[s].pc = "pc_send") => hs'[s] = IdleSlot]_vars

C11_Witness ==
    /\ ev.h = "post" /\ ev.got = "False" /\ ev.out = "sendfail"
    /\ ev.was = "PREVIEW"
    /\ Flow(Stored(ev.u)) = "PREVIEW"
    /\ ev.arg["caption"] = Stored(ev.u).val["caption"]
    /\ postCount[ev.u] = 0

\* C12: a post to the channel that post_to_channel answers with True adds exactly
\* one to the user's post count, in that step and in no other step of the
\* handler, and goes on to clear_state; once that has returned the user has no
\* session (no Redis command having failed).
C12_DeliveredPost ==
    [][\A u \in Users : (ev'.h = "post" /\ ev'.u = u) =>
          /\ ev'.got = "True" =>
                /\ postCount' = [postCount EXCEPT ![u] = @ + 1]
                /\ \A s \in Slots : (SlotUser(s) = u /\ hs[s].pc = "pc_send") => hs'[s].pc = "pc_clear"
          /\ ev'.got # "True" => postCount' = postCount
          /\ ev'.out = "cleared" =>
                /\ \A s \in Slots : SlotUser(s) = u => hs'[s] = IdleSlot
                /\ faults' = 0 => ~Stored(u)'.some]_vars

C12_Witness ==
    /\ ev.h = "post" /\ ev.out = "cleared" /\ ev.was = "PREVIEW"
    /\ faults = 0
    /\ ~Stored(ev.u).some
    /\ postCount[ev.u] = 1

\* C13: once a cancel has completed the user has no session, whether the flow
\* stood in SELECTING, AWAITING_THUMBNAIL, PREVIEW or had no session, and
\* whatever handler of the user is suspended meanwhile (no Redis command having
\* failed).
C13_CancelClears ==
    (ev.h = "cancel" /\ faults = 0) =>
        /\ ev.was \in {"IDLE", "SELECTING", "AWAITING_THUMBNAIL", "PREVIEW", "OTHER"}
        /\ ~Stored(ev.u).some
        /\ Flow(Stored(ev.u)) = "IDLE"
        /\ ev.u \notin DOMAIN redis \cup DOMAIN mem

C13_Witness ==
    /\ ev.h = "cancel" /\ faults = 0
    /\ ev.was = "PREVIEW"
    /\ ~Stored(ev.u).some
    /\ hs["a"].pc = "pc_send"

\* C14: when _on_template_selected, called in PREVIEW for "default" or for a
\* template that exists, has ended, the stored caption is the one rendered from
\* the body chosen (the category default for "default") and the stored
\* override is that choice.
C14_TemplateApplied ==
    (/\ ev.h = "tplsel" /\ ev.was = "PREVIEW" /\ ev.got \in Bodies
     /\ \A s \in Slots : hs[s].h = "idle"
     /\ ev.out # "nostate") =>
        LET g == Stored(ev.u)
        IN /\ ev.out = "ok"
           /\ g.some
           /\ DictGet(g.val, "active_template_override")
                 = (IF ev.got = "default" THEN PyNone ELSE PyStr(ev.got))
           /\ DictGet(g.val, "caption") = PyStr(Caption(ev.cat, g.val, ev.got))

\* C15: no step of _on_template_selected builds an image: the compositor is not
\* called and no thumb_bytes is handed to the store.
C15_NoRebuild ==
    ev.h = "tplsel" => "thumb_bytes" \notin DOMAIN ev.arg

\* C16: when _on_redo_thumb has ended the session holds no thumb_bytes and
\* awaiting_thumbnail is true, and a post to the channel made while the session
\* awaits a photo sends no image built earlier (no Redis command having failed).
C16_RedoDiscards ==
    /\ (ev.h = "redo" /\ hs["a"].h = "idle" /\ Stored(ev.u).some /\ faults = 0) =>
          /\ "thumb_bytes" \notin DOMAIN Stored(ev.u).val
          /\ Truthy(DictGet(Stored(ev.u).val, "awaiting_thumbnail"))
    /\ (ev.h = "post" /\ ev.out = "sent" /\ Flow(Stored(ev.u)) = "AWAITING_THUMBNAIL" /\ faults = 0) =>
          ev.arg["thumb_bytes"] = PyBytes("")

\* C17: every run of _build_post returns the caption and image it built and has
\* them stored, and a run on a session that already holds the caption and image
\* built from the same inputs changes nothing in the session.
C17_BuildIdempotent ==
    [][\A u \in Users :
          (ev'.u = u /\ ev'.h \in {"skip", "photo", "back", "tplsel"} /\ "thumb_bytes" \in DOMAIN ev'.arg) =>
              /\ ev'.out # "TypeError"
              /\ (faults' = 0 /\ hs'["a"].h = "idle") =>
                    /\ Stored(u)'.some
                    /\ DictGet(Stored(u)'.val, "caption") = ev'.arg["caption"]
                    /\ DictGet(Stored(u)'.val, "thumb_bytes") = ev'.arg["thumb_bytes"]
              /\ (/\ Stored(u).some
                  /\ DictGet(Stored(u).val, "caption") = ev'.arg["caption"]
                  /\ DictGet(Stored(u).val, "thumb_bytes") = ev'.arg["thumb_bytes"])
                    => Entry(u)' = Entry(u)]_vars

\* C18: every dict a handler passes to the store and every dict the memory store
\* holds is JSON-serializable: images are text, never bytes.
C18_SerializableStates ==
    /\ ev.h # "post" => Serializable(ev.arg)
    /\ \A u \in DOMAIN mem : Serializable(mem[u])

\* C19: no handler step ends in an exception, and a post to the channel or a
\* copy of the caption made while the user has no session raises nothing and
\* leaves the user without a session.
C19_NoRawException ==
    /\ ev.out \notin {"AttributeError", "TypeError", "ImageError"}
    /\ (ev.h \in {"post", "copy"} /\ ev.was = "IDLE") => ~Stored(ev.u).some

(***************************************************************************)
(* Properties of the template engine                                       *)
(***************************************************************************)

\* C20: for every category, metadata and template body, the text render returns
\* holds no "{" followed by one or more characters other than "}" and a "}":
\* a token of the category is replaced by its value, a placeholder that is no
\* token of the category is removed.
C20_NoPlaceholderLeft ==
    rn.done = "yes" =>
        /\ ~HasPlaceholder(rn.out)
        /\ (rn.tpl = <<"{", "title", "}">> /\ rn.title = Str(<<"t">>)) => rn.out = <<"t">>
        /\ (rn.tpl = <<"{", "title", "}">> /\ rn.title = Absent) => rn.out = <<"Unknown">>
        /\ (rn.tpl = <<"title", "{", "synopsis", "}">> /\ rn.cat = "movie") => rn.out = <<"title">>
        /\ (rn.tpl = <<"title", "{", "synopsis", "}">> /\ rn.cat = "anime" /\ rn.synopsis = Null)
              => rn.out = <<"title", "N/A">>

C20_Witness ==
    /\ rn.done = "yes"
    /\ rn.cat = "anime"
    /\ rn.tpl = <<"{", "title", "}", "}">>
    /\ rn.title = Str(<<"{", "synopsis", "}">>)
    /\ rn.synopsis = Str(<<"{", "title", "}">>)
    /\ rn.out = <<"}">>

\* C21: a token of the category whose metadata value is null or absent is
\* rendered as "N/A", and never as the text of a null value.
C21_NullRendersNA ==
    (rn.done = "yes" /\ rn.own /\ IsToken(rn.cat, rn.key) /\ rn.val \in {Absent, Null})
        => rn.out = <<"N/A">> /\ rn.out # <<"None">>

\* C22 as stated: the hashtags of "Dr. Strange!", movie and "Action, Adventure,
\* Fantasy, Drama" are "#DrStrange #Movie #Action #Adventure #Fantasy".
C22_DrStrangeJoined ==
    (rn.done = "yes" /\ rn.title = DrStrange /\ rn.cat = "movie" /\ rn.genres = FourGenres)
        => rn.out = <<"#", "D", "r", "S", "t", "r", "a", "n", "g", "e", " ", "#", "Movie", " ",
                      "#", "Action", " ", "#", "Adventure", " ", "#", "Fantasy">>

\* C22: the hashtags of "Dr. Strange!", movie and "Action, Adventure, Fantasy,
\* Drama" are "#Dr_Strange #Movie #Action #Adventure #Fantasy": the two words
\* of the title are joined by an underscore, the fourth genre is left out.
C22_DrStrangeTags ==
    (rn.done = "yes" /\ rn.title = DrStrange /\ rn.cat = "movie" /\ rn.genres = FourGenres)
        => rn.out = <<"#", "D", "r", "_", "S", "t", "r", "a", "n", "g", "e", " ", "#", "Movie",
                      " ", "#", "Action", " ", "#", "Adventure", " ", "#", "Fantasy">>

C22_Witness ==
    /\ rn.done = "yes"
    /\ rn.title = DrStrange /\ rn.cat = "movie" /\ rn.genres = FourGenres
    /\ Len(rn.out) = 23

\* C23: for every title, category and genre string the hashtags are tags joined
\* by single spaces, each a "#" followed by at least one character: one title
\* tag, one category tag, and at most 3 genre tags, each an entry among the
\* first 3 comma-separated genre entries with its spaces removed.
C23_TagStructure ==
    rn.done = "yes" =>
        LET tags == SplitOn(rn.out, " ")
            entries == SplitOn(rn.genres, ",")
        IN /\ Len(tags) >= 2 /\ Len(tags) <= 5
           /\ \A i \in 1..Len(tags) : Len(tags[i]) >= 2 /\ tags[i][1] = "#"
           /\ tags[2] = CategoryTag(rn.cat)
           /\ \A i \in 3..Len(tags) :
                 \E j \in 1..3 :
                     /\ j <= Len(entries)
                     /\ tags[i] = <<"#">> \o SelectSeq(entries[j], NotBlank)

\* C24: with an integer rating r, the caption of the default template of anime
\* and manhwa shows r followed by one percent sign, not by two.
ShowsPercent(out, r) ==
    \E i \in 1..(Len(out) - 2) : out[i] = r /\ out[i + 1] = "%" /\ out[i + 2] # "%"
C24_OnePercentSign ==
    (rn.done = "yes" /\ ~rn.own /\ rn.cat \in {"anime", "manhwa"}
        /\ rn.key = "rating" /\ rn.val.k = "int")
        => ShowsPercent(rn.out, rn.val.s[1])

\* C25: every stored template body holds the text {title}; a body without it,
\* sent at the awaiting-body step, is refused: no template is saved, the active
\* template stays what it was, and the session stays at the awaiting-body step.
C25_BodyNeedsTitle ==
    [][/\ \A p \in tb'.templates : HasTitleToken(p[2])
       /\ (/\ tb'.op = "text"
           /\ tb.session.some
           /\ ~tb.session.awaiting_template_name
           /\ tb.session.awaiting_template_body
           /\ ~HasTitleToken(tb'.text))
          => /\ tb'.reply = "body_bad"
             /\ tb'.templates = tb.templates
             /\ tb'.active = tb.active
             /\ tb'.session = tb.session]_vars

C25_Witness ==
    /\ tb.reply = "body_bad"
    /\ tb.text = <<"title", "}">>
    /\ tb.session.awaiting_template_body
    /\ tb.templates = {}
    /\ tb.active = <<"default">>

\* C26: whatever the width and height of the images given, with or without a
\* backdrop and with or without watermark text, the image build_thumbnail or
\* process_custom_thumbnail returns is 1280 wide and 720 high.
C26_FixedSize ==
    th.done = "returned" => th.out.w = 1280 /\ th.out.h = 720 /\ th.out.fmt = "JPEG"

C26_Witness ==
    /\ th.done = "returned"
    /\ th.fn = "process_custom_thumbnail"
    /\ th.call.custom.img.w = 1 /\ th.call.custom.img.h = 2
    /\ th.out.w = 1280 /\ th.out.h = 720

\* C27: with no custom image, build_thumbnail returns a card whatever becomes
\* of the image requests: without a poster URL, or when the poster request
\* times out, fails, is answered with another status than 200 or with bytes
\* that are no image, the poster is the "No Image" placeholder; when the
\* backdrop request fails, the poster is the background.
PosterMissing(c) == ~c.hasPoster \/ c.poster.kind # "image"
BackdropMissing(c) == ~c.hasBackdrop \/ c.backdrop.kind # "image"
C27_NeverFailsOnImages ==
    (th.done # "no" /\ th.fn = "build_thumbnail" /\ th.call.custom.kind = "none") =>
        /\ th.done = "returned"
        /\ th.out.fmt = "JPEG"
        /\ PosterMissing(th.call) => th.out.poster = "No Image"
        /\ ~PosterMissing(th.call) => th.out.poster = "poster"
        /\ BackdropMissing(th.call) => th.out.bg = th.out.poster
        /\ ~BackdropMissing(th.call) => th.out.bg = "backdrop"

C27_Witness ==
    /\ th.done = "returned"
    /\ th.fn = "build_thumbnail"
    /\ th.call.custom.kind = "none"
    /\ th.call.hasPoster /\ th.call.poster.kind = "timeout"
    /\ th.call.hasBackdrop /\ th.call.backdrop.kind = "status"
    /\ th.out.poster = "No Image" /\ th.out.bg = "No Image"

\* C28: every network call returns after at most 2 requests; a second request
\* is made only by a search call whose first request was answered with the
\* rate-limit status; detail calls, image downloads and posts to the channel
\* make at most 1 request.
C28_RetryOnlySearch ==
    ft.done # "no" =>
        /\ ft.done = "returned"
        /\ ft.reqs <= 2
        /\ ft.fn \in DetailCalls \cup OtherCalls => ft.reqs <= 1
        /\ ft.reqs = 2 => ft.fn \in SearchCalls /\ ft.replies[1] = "429"

\* C29: when two select events of one user interleave, no select ends in an
\* error, and every time the store write of a select has executed the session
\* holds exactly the record of that write, one of the two records whole: the
\* write that executes last decides the stored metadata.
C29_LastWriteWins ==
    (faults = 0 /\ ev.h = "select") =>
        /\ ev.out \in {"read", "ok"}
        /\ ev.out = "ok" =>
              /\ Stored("u1").some
              /\ "meta" \in DOMAIN Stored("u1").val
              /\ Stored("u1").val["meta"] = ev.arg["meta"]
              /\ Stored("u1").val["meta"] \in {PyObj(m) : m \in RaceMetas}

\* the second tap has read and written while the first, holding the other
\* record, is still suspended between its read and its write
C29_Witness ==
    /\ redisOn /\ faults = 0
    /\ hs["a"].pc = "write" /\ hs["a"].h = "select" /\ hs["b"].h = "idle"
    /\ ev.h = "select" /\ ev.out = "ok"
    /\ hs["a"].cur["meta"] = PyObj("m1")
    /\ Stored("u1").val["meta"] = PyObj("m2")

\* C30: in every session the store holds, a caption or a thumbnail is there only
\* together with the metadata of a selected item: a skip that arrives for a
\* session with search results only, or for no session, builds no preview.
C30_PreviewNeedsMeta ==
    \A u \in Users :
        (faults = 0 /\ Stored(u).some /\ {"caption", "thumb_bytes"} \cap DOMAIN Stored(u).val # {})
            => "meta" \in DOMAIN Stored(u).val

\* C31: for a session that holds a selected item, a skip stores no custom image
\* and a photo stores the received image; both clear awaiting_thumbnail, neither
\* handler ends in an exception, and when the handler has finished the session
\* holds the built caption and thumbnail.  A photo that is ignored leaves the
\* handler slot idle.
C31_ThumbnailSettled ==
    LET d == Stored(ev.u).val
    IN (faults = 0 /\ ev.h \in {"skip", "photo"} /\ Stored(ev.u).some /\ "meta" \in DOMAIN d) =>
          /\ ev.out # "TypeError"
          /\ ev.out = "ok" =>
                /\ ~Truthy(DictGet(d, "awaiting_thumbnail"))
                /\ ev.h = "skip" => DictGet(d, "custom_image") = PyNone
                /\ ev.h = "photo" => DictGet(d, "custom_image").t = "bytes"
                /\ hs["a"].h = "idle" => {"caption", "thumb_bytes"} \subseteq DOMAIN d
          /\ ev.out = "ignored" => hs["a"].h = "idle"

\* C32: when the handler of a photo that was not ignored has finished, the
\* session either holds the built caption and thumbnail or still has
\* awaiting_thumbnail true; it is never left with the flag false and nothing built.
C32_PhotoAllOrNothing ==
    LET d == Stored(ev.u).val
    IN (faults = 0 /\ ev.h = "photo" /\ ev.out # "ignored" /\ hs["a"].h = "idle"
           /\ Stored(ev.u).some) =>
          \/ Truthy(DictGet(d, "awaiting_thumbnail"))
          \/ {"caption", "thumb_bytes"} \subseteq DOMAIN d

\* C33 as stated: when the last thing that happened is a cancel, or the write of
\* a handler that had read the session before a cancel removed it, and no handler
\* is in flight, the session is absent.
C33_CancelFinal ==
    (faults = 0 /\ hs["a"].h = "idle"
        /\ \/ ev.h = "cancel"
           \/ ev.h \in {"select", "skip"} /\ ev.was = "IDLE" /\ "search_results" \in DOMAIN ev.arg)
        => ~Stored("u1").some

\* C33: a completed cancel leaves the session absent, also while a handler is
\* suspended; cancel does not interrupt that handler: when its store write comes
\* after the cancel, the session exists again and is exactly the dict the handler
\* wrote, the session it had read merged with its update.  A preview build that
\* finds no session stores nothing.
C33_CancelThenLateWrite ==
    faults = 0 =>
        /\ ev.h = "cancel" => ~Stored("u1").some
        /\ (ev.h \in {"select", "skip"} /\ ev.out = "ok" /\ ev.was = "IDLE") =>
              /\ Stored("u1").some
              /\ Stored("u1").val = ev.arg
        /\ (ev.h = "skip" /\ ev.out = "TypeError" /\ ev.was = "IDLE") => ~Stored("u1").some

\* the select had read the search results, the cancel removed the session, the
\* select then wrote
C33_Witness ==
    /\ redisOn /\ faults = 0
    /\ hs["a"].h = "idle"
    /\ ev.h = "select" /\ ev.out = "ok" /\ ev.was = "IDLE"
    /\ "search_results" \in DOMAIN ev.arg
    /\ Stored("u1").some /\ "search_results" \in DOMAIN Stored("u1").val

\* C34: one built preview is delivered at most once: never have two post handlers
\* of one user both delivered the stored caption, and the post count risen by
\* two, before either of them cleared the session.
C34_PostedOnce ==
    faults = 0 =>
        ~(/\ hs["a"].pc = "pc_clear" /\ hs["b"].pc = "pc_clear"
          /\ ev.h = "post" /\ ev.out = "sent"
          /\ ev.arg["caption"] # PyStr("")
          /\ postCount["u1"] = 2)

\* C35: the post count of a user changes only in a step of the post-to-channel
\* handler whose delivery succeeded, and then by one; no other handler step
\* (search, select, skip, photo, template, redo, copy caption, cancel) changes it.
C35_CountOnlyOnDelivery ==
    [][\A u \in Users :
          postCount'[u] # postCount[u] =>
              /\ ev'.h = "post" /\ ev'.out = "sent" /\ ev'.u = u
              /\ postCount'[u] = postCount[u] + 1]_vars

\* C36: every session the store holds that has one of the fields of the content
\* flow also has a category, one of the four routed ones.
ContentFields ==
    {"search_results", "meta", "awaiting_thumbnail", "custom_image", "caption", "thumb_bytes"}
C36_SessionHasCategory ==
    \A u \in Users :
        LET d == Stored(u).val
        IN (faults = 0 /\ Stored(u).some /\ ContentFields \cap DOMAIN d # {}) =>
              /\ "category" \in DOMAIN d
              /\ d["category"].t = "str"
              /\ d["category"].v \in RoutedCategories

\* C37: in every session the store holds at most one of the input flags is true.
C37_OneInputFlag ==
    \A u \in Users : Stored(u).some => Cardinality(FlagsOn(Stored(u).val)) <= 1

\* C38: only the text of an admin is ever sent out as a broadcast.
C38_BroadcastByAdmin == bc \subseteq Admins

\* C39: an update that reached the networked backend leaves the whole merged
\* dict there with 600 seconds to live, whatever the entry had left before; from
\* then on the entry is there exactly until 600 seconds have passed since that
\* update (last.ttl is what is left of them).
C39_UpdateRefreshesTtl ==
    (redisOn /\ last.op = "update" /\ ~last.raised /\ ~last.failed) =>
        /\ ~last.aged => last.ttl = DEFAULT_TTL
        /\ IF last.ttl > 0
           THEN /\ last.user \in DOMAIN redis
                /\ redis[last.user].ttl = last.ttl
                /\ redis[last.user].ttl <= DEFAULT_TTL
                /\ redis[last.user].payload = JsonDumps(last.wrote.val)
           ELSE last.user \notin DOMAIN redis

\* time had passed, a session was there, the update came, 599 seconds later the
\* session is still there with one second left
C39_Witness ==
    /\ redisOn /\ last.op = "update" /\ ~last.raised /\ ~last.failed
    /\ last.pre.some /\ last.aged /\ ticks = 2
    /\ last.user \in DOMAIN redis
    /\ redis[last.user].ttl = 1

\* C40: the value of a token is inserted as it is and not scanned again: the
\* template "{title}" with the title "{synopsis}" renders as the text
\* "{synopsis}", neither replaced by the synopsis nor removed.
C40_ValueVerbatim ==
    (rn.done = "yes" /\ rn.tpl = T("title") /\ rn.title = Str(T("synopsis")))
        => rn.out = T("synopsis")

====
